---- MODULE Spec2Model ----
(***************************************************************************)
(* Model of the agent evaluation and budget re-allocation engine:          *)
(*   src/app/agents.py                      ExecutiveBot, BoardRoom         *)
(*   src/scripts/multi_agent_optimization.py MultiAgentOptimizer            *)
(*                                                                         *)
(* Numbers.  KPI values, targets and personality traits are decimal        *)
(* numbers with at most two decimals; they are held as integers counting   *)
(* hundredths (0.92 is 92, 1200000 is 120000000), together with a flag     *)
(* telling whether the Python value is a float (it decides the number      *)
(* format).  The budget shares F1..F4 are exact rationals over a common    *)
(* denominator, [n |-> <<n1,n2,n3,n4>>, d |-> D] standing for ni/D, kept   *)
(* in lowest terms.  Arithmetic is exact: the rounding of Python floats is  *)
(* not modelled.                                                           *)
(*                                                                         *)
(* Strings.  A Python str built by an f-string is the sequence of its      *)
(* literal and formatted pieces, so that "the message contains clause c"   *)
(* is "c is one of the pieces".                                            *)
(***************************************************************************)
EXTENDS Integers, Sequences, FiniteSets, TLC

VARIABLES
    bots,       \* BoardRoom.bots: the panel, a sequence of ExecutiveBot objects
    call,       \* the last method call on the panel: [op, bot, results, out]
    ref,        \* an earlier call, remembered to compare a repeated call with
    current,    \* optimize_next_year: the current_results it was given
    alloc,      \* optimize_next_year: the (f1, f2, f3, f4) it returned
    adjustments,\* optimize_next_year: twice its dict `adjustments` after the loop
    calls,      \* the number of calls of optimize_next_year made so far
    optimizer,  \* MultiAgentOptimizer: self.collaborative, self.risk_tolerance_level
    pool,       \* run_5_year_optimization: scenario_data, the rows it is given
    strategy,   \* run_5_year_optimization: initial_strategy
    years,      \* run_5_year_optimization: the list `years`
    metrics,    \* calculate_5_year_metrics: the calls made and the dict returned
    rng,        \* np.random: the draws made since the seed, the position in them
    shared,     \* the agent configuration dict shared by the optimizers built from it
    fs,         \* the file read: config/agent_config.json, or a row of the CSV
    db,         \* mongodb_client._db and the collections of the document store
    req,        \* ImprovedForioExtractor._make_request: the loop and its responses
    pc          \* position in the method that is running

runVars == <<optimizer, pool, strategy, years, metrics>>
\* the collaborators of the engine: configuration, document store, HTTP client
extVars == <<shared, fs, db, req>>
vars == <<bots, call, ref, current, alloc, adjustments, calls,
          optimizer, pool, strategy, years, metrics, rng, shared, fs, db, req, pc>>

----------------------------------------------------------------------------
(* Bounds of the model *)

\* largest panel index used by a single evaluate / recommend call
MaxBots == 5
\* the calls of calculate_5_year_metrics made on one list of years
MaxMetricsCalls == 2
\* the optimizers built from one shared configuration
MaxOptimizers == 2

----------------------------------------------------------------------------
(* Numbers *)

Abs(x) == IF x < 0 THEN -x ELSE x
Max(a, b) == IF a > b THEN a ELSE b
Min(a, b) == IF a < b THEN a ELSE b

\* a Python int
I(x) == [h |-> 100 * x, float |-> FALSE]
\* a Python float, given in hundredths
Fl(h) == [h |-> h, float |-> TRUE]

\* dict.get(key) returning None for an absent key
None == [isNone |-> TRUE]
\* (variant: results.get(key, 0))
Get_DefaultZero(d, key) == IF key \in DOMAIN d THEN d[key] ELSE I(0)
Get(d, key) == IF key \in DOMAIN d THEN d[key] ELSE None

----------------------------------------------------------------------------
(* Number formatting of ExecutiveBot.evaluate *)

Pad2(n) == IF n < 10 THEN "0" \o ToString(n) ELSE ToString(n)
Pad3(n) == IF n < 10 THEN "00" \o ToString(n)
           ELSE IF n < 100 THEN "0" \o ToString(n) ELSE ToString(n)

RECURSIVE Commas(_)
\* the "," format option on a non-negative integer: groups of three digits
Commas(n) == IF n < 1000 THEN ToString(n)
             ELSE Commas(n \div 1000) \o "," \o Pad3(n % 1000)

\* value_str of evaluate
FormatValue(v) ==
    IF v.float
    THEN IF v.h < 100 /\ v.h > 0
         THEN ToString(v.h) \o ".0%"                                   \* f"{kpi_value:.1%}"
         ELSE (IF v.h < 0 THEN "-" ELSE "") \o Commas(Abs(v.h) \div 100)
              \o "." \o Pad2(Abs(v.h) % 100)                           \* f"{kpi_value:,.2f}"
    ELSE (IF v.h < 0 THEN "-" ELSE "") \o Commas(Abs(v.h) \div 100)    \* f"{kpi_value:,}"

----------------------------------------------------------------------------
(* ExecutiveBot *)

DefaultPersonality == [risk_tolerance |-> 50, friendliness |-> 50, ambition |-> 50]

\* ExecutiveBot.__init__: `target or {}`, `personality or {defaults}`
ExecutiveBot(name, kpi_focus, target, personality) ==
    [name |-> name, kpi_focus |-> kpi_focus,
     target |-> IF target = None THEN <<>> ELSE target,
     personality |-> IF personality = None \/ DOMAIN personality = {}
                     THEN DefaultPersonality ELSE personality]

\* (variant: the lower bound compared with <=)
BelowMin_Inclusive(self, v) == "min" \in DOMAIN self.target /\ v.h <= self.target["min"]

\* kpi_value < self.target.get("min", float("-inf"))
BelowMin(self, v) == "min" \in DOMAIN self.target /\ v.h < self.target["min"]
\* kpi_value > self.target.get("max", float("inf"))
AboveMax(self, v) == "max" \in DOMAIN self.target /\ v.h > self.target["max"]

\* the status computed by evaluate
Status(self, v) ==
    IF BelowMin(self, v) THEN "below target"
    ELSE IF AboveMax(self, v) THEN "above target"
    ELSE "on target"

\* (variant: the aggressive-action cut at 0.9 instead of 0.7)
Comments_HighCut(self, status) ==
    IF status = "below target"
    THEN (IF self.personality.risk_tolerance > 90
          THEN <<" (willing to take aggressive action)">>
          ELSE IF self.personality.risk_tolerance < 30
          THEN <<" (cautious, prefers gradual improvements)">>
          ELSE <<>>)
         \o (IF self.personality.ambition > 80
             THEN <<" (pushing hard for improvement)">>
             ELSE <<>>)
    ELSE IF status = "above target"
    THEN (IF self.personality.risk_tolerance < 30
          THEN <<" (concerned about sustainability)">>
          ELSE IF self.personality.ambition > 80
          THEN <<" (wants even higher targets)">>
          ELSE <<>>)
    ELSE (IF self.personality.friendliness > 70
          THEN <<" (satisfied with team performance)">>
          ELSE <<>>)

\* the list `comments` of _get_personality_comment
Comments(self, status) ==
    IF status = "below target"
    THEN (IF self.personality.risk_tolerance > 70
          THEN <<" (willing to take aggressive action)">>
          ELSE IF self.personality.risk_tolerance < 30
          THEN <<" (cautious, prefers gradual improvements)">>
          ELSE <<>>)
         \o (IF self.personality.ambition > 80
             THEN <<" (pushing hard for improvement)">>
             ELSE <<>>)
    ELSE IF status = "above target"
    THEN (IF self.personality.risk_tolerance < 30
          THEN <<" (concerned about sustainability)">>
          ELSE IF self.personality.ambition > 80
          THEN <<" (wants even higher targets)">>
          ELSE <<>>)
    ELSE (IF self.personality.friendliness > 70
          THEN <<" (satisfied with team performance)">>
          ELSE <<>>)

RECURSIVE Join(_, _)
\* sep.join(list)
Join(list, sep) ==
    IF Len(list) = 0 THEN <<>>
    ELSE IF Len(list) = 1 THEN list
    ELSE <<Head(list), sep>> \o Join(Tail(list), sep)

get_personality_comment(self, status) == Join(Comments(self, status), " ")

\* ExecutiveBot.evaluate: the returned string
evaluate(self, results) ==
    LET kpi_value == Get(results, self.kpi_focus) IN
    IF kpi_value = None
    THEN <<self.name, ": KPI '", self.kpi_focus, "' not found in results">>
    ELSE LET status == Status(self, kpi_value) IN
         <<self.name, " sees ", self.kpi_focus, "=", FormatValue(kpi_value),
           ", status=", status>> \o get_personality_comment(self, status)

\* (variant: the risk cut of the aggressive directive taken as >= 0.6)
recommend_CutInclusive(self, results) ==
    LET kpi_value == Get(results, self.kpi_focus) IN
    IF kpi_value = None
    THEN <<self.name, ": Cannot recommend without ", self.kpi_focus, " data">>
    ELSE IF BelowMin(self, kpi_value)
    THEN IF self.personality.risk_tolerance >= 60
         THEN <<self.name, ": Increase investment aggressively to reach target">>
         ELSE <<self.name, ": Gradual increase recommended to reach target">>
    ELSE IF AboveMax(self, kpi_value)
    THEN <<self.name, ": Reduce spending and optimize efficiency">>
    ELSE IF self.personality.ambition > 70
    THEN <<self.name, ": Maintain strategy but explore optimization opportunities">>
    ELSE <<self.name, ": Maintain current strategy">>

\* ExecutiveBot.recommend: the returned string
recommend(self, results) ==
    LET kpi_value == Get(results, self.kpi_focus) IN
    IF kpi_value = None
    THEN <<self.name, ": Cannot recommend without ", self.kpi_focus, " data">>
    ELSE IF BelowMin(self, kpi_value)
    THEN IF self.personality.risk_tolerance > 60
         THEN <<self.name, ": Increase investment aggressively to reach target">>
         ELSE <<self.name, ": Gradual increase recommended to reach target">>
    ELSE IF AboveMax(self, kpi_value)
    THEN <<self.name, ": Reduce spending and optimize efficiency">>
    ELSE IF self.personality.ambition > 70
    THEN <<self.name, ": Maintain strategy but explore optimization opportunities">>
    ELSE <<self.name, ": Maintain current strategy">>

\* (variant: the method keeps the value it saw as the new lower bound)
SelfAfterCall_Ratchet(self, results) ==
    IF self.kpi_focus \in DOMAIN results
    THEN [self EXCEPT !.target = ("min" :> results[self.kpi_focus].h) @@ self.target]
    ELSE self

\* the fields of self when evaluate / recommend return: neither method assigns one
SelfAfterCall(self, results) == self

----------------------------------------------------------------------------
(* BoardRoom *)

RECURSIVE run_meeting_Reversed(_, _)
\* (variant: the results collected in reverse panel order)
run_meeting_Reversed(bs, results) ==
    IF Len(bs) = 0 THEN <<>>
    ELSE run_meeting_Reversed(Tail(bs), results) \o <<evaluate(Head(bs), results)>>

RECURSIVE run_meeting(_, _)
\* [bot.evaluate(results) for bot in self.bots]
run_meeting(bs, results) ==
    IF Len(bs) = 0 THEN <<>>
    ELSE <<evaluate(Head(bs), results)>> \o run_meeting(Tail(bs), results)

RECURSIVE negotiate_strategy(_, _)
\* [bot.recommend(results) for bot in self.bots]
negotiate_strategy(bs, results) ==
    IF Len(bs) = 0 THEN <<>>
    ELSE <<recommend(Head(bs), results)>> \o negotiate_strategy(Tail(bs), results)

\* no method has been called on the panel
Constructive == "Bots work together constructively, finding common ground and shared strategy."
Compromise == "Bots align toward compromise, though some tension remains."
Disagreement == "Bots argue over priorities, each defending their domain. No consensus reached."
Neutral == "Professional interaction. Each bot focuses on their own KPIs."

RECURSIVE SumFriendliness(_)
\* sum(b.personality["friendliness"] for b in self.bots), in hundredths
SumFriendliness(bs) ==
    IF Len(bs) = 0 THEN 0
    ELSE Head(bs).personality.friendliness + SumFriendliness(Tail(bs))

\* BoardRoom.simulate_interaction on a panel with at least one bot;
\* sum / len > 0.7 is sum > 0.7 * len
simulate_interaction_HighCut(bs, setting) ==
    IF setting = "collaborative"
    THEN IF SumFriendliness(bs) > 80 * Len(bs) THEN Constructive ELSE Compromise
    ELSE IF setting = "hostile" THEN Disagreement
    ELSE Neutral
simulate_interaction(bs, setting) ==
    IF setting = "collaborative"
    THEN IF SumFriendliness(bs) > 70 * Len(bs) THEN Constructive ELSE Compromise
    ELSE IF setting = "hostile" THEN Disagreement
    ELSE Neutral

NoCall == [op |-> "none", bot |-> 0, results |-> <<>>, out |-> <<>>]

\* no optimizer, no run
\* calculate_5_year_metrics not called yet
NoMetrics == [calls |-> 0]

\* np.random just seeded: no draw made
Seeded == [tape |-> <<>>, pos |-> 1]

\* no configuration shared, no file, no store, no request
NoExt ==
    /\ shared = <<>>
    /\ fs = <<>>
    /\ db = <<>>
    /\ req = <<>>

NoRun ==
    /\ rng = Seeded
    /\ NoExt
    /\ optimizer = <<>>
    /\ pool = <<>>
    /\ strategy = None
    /\ years = <<>>
    /\ metrics = NoMetrics

----------------------------------------------------------------------------
(* Agent configurations *)

Agent(name, kpi, target, risk, friendliness, ambition) ==
    [name |-> name, kpi |-> kpi, target |-> target,
     personality |-> [risk_tolerance |-> risk, friendliness |-> friendliness,
                      ambition |-> ambition]]

\* default_config of load_agent_config, in insertion order
default_config ==
    << Agent("CFO", "accumulated_profit", ("min" :> 120000000), 30, 60, 80),
       Agent("CRO", "compromised_systems", ("max" :> 1000), 20, 50, 60),
       Agent("COO", "systems_availability", ("min" :> 92), 50, 70, 70),
       Agent("IT_Manager", "compromised_systems", ("max" :> 800), 25, 60, 70),
       Agent("CHRO", "systems_availability", ("min" :> 93), 40, 75, 65) >>

\* a configuration read from config/agent_config.json: two-sided targets, an
\* agent without target, a role the allocator does not know, a KPI no record has
file_config ==
    << Agent("CRO", "compromised_systems", ("min" :> 200) @@ ("max" :> 1000), 20, 50, 70),
       Agent("CFO", "accumulated_profit", ("min" :> 120000000) @@ ("max" :> 200000000),
             70, 70, 80),
       Agent("CISO", "compromised_systems", <<>>, 40, 60, 90),
       Agent("COO", "systems_availability", ("min" :> 92), 90, 90, 50),
       Agent("CHRO", "employee_satisfaction", ("min" :> 70), 50, 50, 50) >>

\* what load_agent_config can return
AgentConfigs == {default_config, file_config}

\* the personality MultiAgentOptimizer.__init__ gives an agent
AdjustPersonality(p, collaborative, risk_tolerance_level) ==
    [ambition |-> IF collaborative THEN Min(100, p.ambition + 20)
                                   ELSE Max(0, p.ambition - 20),
     friendliness |-> IF collaborative THEN Min(100, p.friendliness + 20)
                                       ELSE Max(0, p.friendliness - 20),
     risk_tolerance |-> IF risk_tolerance_level = "low" THEN Max(0, p.risk_tolerance - 30)
                        ELSE IF risk_tolerance_level = "high"
                             THEN Min(100, p.risk_tolerance + 30)
                        ELSE p.risk_tolerance]

RECURSIVE OptimizerAgents(_, _, _)
\* self.agents built by MultiAgentOptimizer.__init__
OptimizerAgents(agent_config, collaborative, risk_tolerance_level) ==
    IF Len(agent_config) = 0 THEN <<>>
    ELSE LET c == Head(agent_config)
             rest == OptimizerAgents(Tail(agent_config), collaborative,
                                     risk_tolerance_level)
         IN IF c.name \in {"IT_Manager", "CHRO", "COO_Business"}
            THEN rest
            ELSE <<ExecutiveBot(c.name, c.kpi, c.target,
                                AdjustPersonality(c.personality, collaborative,
                                                  risk_tolerance_level))>> \o rest

\* the agents built straight from a configuration (agents.py, __main__)
ConfigAgents(agent_config) ==
    [i \in 1..Len(agent_config) |->
        ExecutiveBot(agent_config[i].name, agent_config[i].kpi,
                     agent_config[i].target, agent_config[i].personality)]

RiskLevels == {"low", "medium", "high"}

\* the panels a BoardRoom is built with
Panels ==
    {OptimizerAgents(c, collab, lvl) : c \in AgentConfigs, collab \in BOOLEAN,
                                       lvl \in RiskLevels}
    \cup {ConfigAgents(c) : c \in AgentConfigs}

----------------------------------------------------------------------------
(* KPI records given to the panel *)

BoardRecords ==
    { ("accumulated_profit" :> I(800000)) @@ ("compromised_systems" :> I(12))
          @@ ("systems_availability" :> Fl(91)),
      ("accumulated_profit" :> I(1200000)) @@ ("compromised_systems" :> I(10))
          @@ ("systems_availability" :> Fl(92)),
      ("accumulated_profit" :> I(1500000)) @@ ("compromised_systems" :> I(8))
          @@ ("systems_availability" :> Fl(94)),
      ("accumulated_profit" :> I(1500000)) @@ ("compromised_systems" :> I(8))
          @@ ("systems_availability" :> Fl(94)) @@ ("impact_on_business" :> Fl(460))
          @@ ("employee_satisfaction" :> Fl(65)),
      ("accumulated_profit" :> Fl(200000000)) @@ ("compromised_systems" :> Fl(200))
          @@ ("systems_availability" :> Fl(100)),
      ("accumulated_profit" :> Fl(250000050)) @@ ("compromised_systems" :> I(1))
          @@ ("systems_availability" :> Fl(93)),
      ("accumulated_profit" :> Fl(-350025)) @@ ("compromised_systems" :> I(0))
          @@ ("systems_availability" :> Fl(0)),
      ("compromised_systems" :> I(11)),
      ("systems_availability" :> Fl(91)) @@ ("impact_on_business" :> Fl(460)),
      <<>> }

----------------------------------------------------------------------------
(* Budget shares: exact rationals over a common denominator *)

\* the bounds of F1..F4 in optimize_next_year and estimate_f1_f4_from_data
Lo == <<10, 10, 5, 5>>
Hi == <<60, 60, 50, 50>>
\* the allocation assumed when the record has none
DefaultShares == <<30, 30, 25, 15>>

Sum4(n) == n[1] + n[2] + n[3] + n[4]

RECURSIVE GCD(_, _)
GCD(a, b) == IF b = 0 THEN Abs(a) ELSE GCD(b, a % b)

\* the same four shares in lowest terms
Reduce(a) ==
    LET g == GCD(GCD(GCD(a.n[1], a.n[2]), GCD(a.n[3], a.n[4])), a.d)
    IN [n |-> [i \in 1..4 |-> a.n[i] \div g], d |-> a.d \div g]

\* (variant: the shares returned as clamped, the scaling to 100 left out)
Normalize_Skipped(a) == Reduce(a)

\* total = f1 + f2 + f3 + f4; if total > 0: fi = fi * 100 / total
Normalize(a) ==
    LET total == Sum4(a.n) IN
    IF total > 0
    THEN LET g == GCD(GCD(a.n[1], a.n[2]), GCD(a.n[3], a.n[4]))
             t == total \div g
             k == GCD(100, t)
         IN [n |-> [i \in 1..4 |-> (a.n[i] \div g) * (100 \div k)], d |-> t \div k]
    ELSE Reduce(a)

\* (variant: every share capped at 30)
Clamp_LowCeiling(a) ==
    [n |-> [i \in 1..4 |-> Max(Lo[i] * a.d, Min(30 * a.d, a.n[i]))], d |-> a.d]
\* fi = max(lo, min(hi, fi))
Clamp(a) ==
    [n |-> [i \in 1..4 |-> Max(Lo[i] * a.d, Min(Hi[i] * a.d, a.n[i]))], d |-> a.d]

\* every share within its bound
InBounds(a) == \A i \in 1..4 : Lo[i] * a.d <= a.n[i] /\ a.n[i] <= Hi[i] * a.d

\* the shares as whole numbers
Shares(f1, f2, f3, f4) == [n |-> <<f1, f2, f3, f4>>, d |-> 1]

----------------------------------------------------------------------------
(* MultiAgentOptimizer.optimize_next_year *)

\* current_results.get('F1', 30), ..., current_results.get('F4', 15)
CurrentAllocation(current_results) ==
    IF "F" \in DOMAIN current_results THEN current_results["F"]
    ELSE [n |-> DefaultShares, d |-> 1]

\* (variant: the first rule applied to an agent of any name)
AgentAdjustmentX2_AnyName(agent, current_results) ==
    LET kpi_value == Get(current_results, agent.kpi_focus) IN
    IF kpi_value = None THEN <<0, 0, 0, 0>>
    ELSE IF BelowMin(agent, kpi_value) THEN <<4, 2, -3, -3>>
    ELSE IF agent.name = "CRO" /\ AboveMax(agent, kpi_value) THEN <<6, 4, -4, -6>>
    ELSE <<0, 0, 0, 0>>
\* twice the adjustment one agent adds (the code adds halves: 1.5)
AgentAdjustmentX2(agent, current_results) ==
    LET kpi_value == Get(current_results, agent.kpi_focus) IN
    IF kpi_value = None THEN <<0, 0, 0, 0>>
    ELSE IF agent.name = "CFO" /\ BelowMin(agent, kpi_value) THEN <<4, 2, -3, -3>>
    ELSE IF agent.name = "CRO" /\ AboveMax(agent, kpi_value) THEN <<6, 4, -4, -6>>
    ELSE IF agent.name = "COO" /\ BelowMin(agent, kpi_value) THEN <<3, 2, -2, -3>>
    ELSE <<0, 0, 0, 0>>

RECURSIVE AdjustmentsX2(_, _)
\* twice the dict `adjustments` after the loop over self.agents
AdjustmentsX2(agents, current_results) ==
    IF Len(agents) = 0 THEN <<0, 0, 0, 0>>
    ELSE LET a == AgentAdjustmentX2(Head(agents), current_results)
             r == AdjustmentsX2(Tail(agents), current_results)
         IN [i \in 1..4 |-> a[i] + r[i]]

\* (variant: the adjustments taken off the current shares)
Adjusted_Subtracted(agents, current_results) ==
    LET cur == CurrentAllocation(current_results)
        adj == AdjustmentsX2(agents, current_results)
    IN [n |-> [i \in 1..4 |-> 2 * cur.n[i] - adj[i] * cur.d], d |-> 2 * cur.d]
\* current_fi + adjustments['Fi'], before the constraints
Adjusted(agents, current_results) ==
    LET cur == CurrentAllocation(current_results)
        adj == AdjustmentsX2(agents, current_results)
    IN [n |-> [i \in 1..4 |-> 2 * cur.n[i] + adj[i] * cur.d], d |-> 2 * cur.d]

\* (variant: the scaled shares clamped once more)
optimize_next_year_Reclamped(agents, current_results) ==
    Reduce(Clamp(Normalize(Clamp(Adjusted(agents, current_results)))))
\* the (new_f1, new_f2, new_f3, new_f4) returned
optimize_next_year(agents, current_results) ==
    Normalize(Clamp(Adjusted(agents, current_results)))

\* the panels of the optimizers the allocator is run with
AllocPanels ==
    { OptimizerAgents(default_config, TRUE, "medium"),
      OptimizerAgents(file_config, FALSE, "low") }

\* the KPI values of the records given to the allocator
AllocKpis ==
    { p @@ c @@ a :
        p \in { <<>>, ("accumulated_profit" :> I(800000)),
                ("accumulated_profit" :> I(1500000)) },
        c \in { ("compromised_systems" :> I(8)), ("compromised_systems" :> I(12)) },
        a \in { ("systems_availability" :> Fl(91)), ("systems_availability" :> Fl(94)) } }

\* allocations within the bounds that sum to 100: in the middle of the
\* bounds, on a bound, and one a run stores (36.5, 34, 20.5, 9)
ValidShares ==
    { Shares(30, 30, 25, 15), Shares(25, 25, 25, 25), Shares(60, 30, 5, 5),
      Shares(40, 35, 20, 5), Shares(10, 10, 50, 30), Shares(57, 33, 5, 5),
      Shares(35, 35, 20, 10), [n |-> <<73, 68, 41, 18>>, d |-> 2] }

\* the previous allocations: in and out of the bounds, summing to 100 or not,
\* whole or half numbers (5, 6.5, 25 ...), and the record without F1..F4
AllocShares ==
    { Reduce([n |-> <<f1, f2, f3, f4>>, d |-> 2]) :
        f1 \in {20, 60, 110, 140}, f2 \in {60, 110}, f3 \in {10, 13, 50, 110},
        f4 \in {10, 30, 100} }
    \cup ValidShares

AllocRecords ==
    AllocKpis \cup { k @@ ("F" :> f) : k \in AllocKpis, f \in AllocShares }

\* self.optimize_next_year(current_results, scenario_data), on the record in current
OptimizeNextYear ==
    /\ pc = "alloc"
    /\ alloc' = optimize_next_year(bots, current)
    /\ adjustments' = AdjustmentsX2(bots, current)
    /\ calls' = calls + 1
    /\ bots' = [i \in 1..Len(bots) |->
                  SelfAfterCall(SelfAfterCall(bots[i], current), current)]
    /\ pc' = "allocated"
    /\ UNCHANGED <<call, ref, current, runVars, rng, extVars>>

\* an optimizer and the record it is about to be given
InitAlloc ==
    /\ bots \in AllocPanels
    /\ call = NoCall
    /\ ref = NoCall
    /\ current \in AllocRecords
    /\ alloc = <<>>
    /\ adjustments = <<>>
    /\ calls = 0
    /\ NoRun
    /\ pc = "alloc"

NextAlloc == OptimizeNextYear

SpecAlloc == InitAlloc /\ [][NextAlloc]_vars

----------------------------------------------------------------------------
(* Calls on the panel *)

\* the panel after a method ran on bot i
BotsAfter(i, results) == [bots EXCEPT ![i] = SelfAfterCall(bots[i], results)]
\* the panel after a method ran on every bot
AllBotsAfter(results) == [i \in 1..Len(bots) |-> SelfAfterCall(bots[i], results)]

\* bots[i].evaluate(results)
Evaluate(i, results) ==
    /\ i \in 1..Len(bots)
    /\ call' = [op |-> "evaluate", bot |-> i, results |-> results,
                out |-> evaluate(bots[i], results)]
    /\ bots' = BotsAfter(i, results)
    /\ UNCHANGED <<current, alloc, adjustments, calls, runVars, rng, extVars, pc>>

\* bots[i].recommend(results)
Recommend(i, results) ==
    /\ i \in 1..Len(bots)
    /\ call' = [op |-> "recommend", bot |-> i, results |-> results,
                out |-> recommend(bots[i], results)]
    /\ bots' = BotsAfter(i, results)
    /\ UNCHANGED <<current, alloc, adjustments, calls, runVars, rng, extVars, pc>>

\* BoardRoom.run_meeting(results)
RunMeeting(results) ==
    /\ call' = [op |-> "run_meeting", bot |-> 0, results |-> results,
                out |-> run_meeting(bots, results)]
    /\ bots' = AllBotsAfter(results)
    /\ UNCHANGED <<current, alloc, adjustments, calls, runVars, rng, extVars, pc>>

\* BoardRoom.negotiate_strategy(results)
NegotiateStrategy(results) ==
    /\ call' = [op |-> "negotiate_strategy", bot |-> 0, results |-> results,
                out |-> negotiate_strategy(bots, results)]
    /\ bots' = AllBotsAfter(results)
    /\ UNCHANGED <<current, alloc, adjustments, calls, runVars, rng, extVars, pc>>

\* the settings a caller passes: the three documented ones and another string
Settings == {"collaborative", "hostile", "neutral", "competitive"}

\* BoardRoom.simulate_interaction(setting); the panel is not empty, so the
\* division by len(self.bots) is defined
SimulateInteraction(setting) ==
    /\ Len(bots) > 0
    /\ call' = [op |-> "simulate_interaction", bot |-> 0, results |-> <<>>,
                setting |-> setting,
                out |-> simulate_interaction(bots, setting)]
    /\ UNCHANGED <<bots, current, alloc, adjustments, calls, runVars, rng, extVars, pc>>

InitBoard ==
    /\ bots \in Panels
    /\ call = NoCall
    /\ ref = NoCall
    /\ current = <<>>
    /\ alloc = <<>>
    /\ adjustments = <<>>
    /\ calls = 0
    /\ NoRun
    /\ pc = "board"

NextBoard ==
    /\ \/ \E i \in 1..MaxBots, r \in BoardRecords : Evaluate(i, r)
       \/ \E i \in 1..MaxBots, r \in BoardRecords : Recommend(i, r)
       \/ \E r \in BoardRecords : RunMeeting(r)
       \/ \E r \in BoardRecords : NegotiateStrategy(r)
       \/ \E s \in Settings : SimulateInteraction(s)
    /\ UNCHANGED ref

SpecBoard == InitBoard /\ [][NextBoard]_vars

\* the records of the repeated calls: one with every KPI, one with some, none
RepeatRecords ==
    { r \in BoardRecords :
        \/ DOMAIN r = {}
        \/ DOMAIN r = {"compromised_systems"}
        \/ /\ DOMAIN r = {"accumulated_profit", "compromised_systems",
                          "systems_availability"}
           /\ r["compromised_systems"] = I(12) }

\* any sequence of calls; ref keeps one of the calls made before the last one
NextRepeat ==
    /\ \/ \E i \in 1..MaxBots, r \in RepeatRecords : Evaluate(i, r)
       \/ \E i \in 1..MaxBots, r \in RepeatRecords : Recommend(i, r)
       \/ \E r \in RepeatRecords : RunMeeting(r)
       \/ \E r \in RepeatRecords : NegotiateStrategy(r)
    /\ ref' \in {ref, call}

SpecRepeat == InitBoard /\ [][NextRepeat]_vars

----------------------------------------------------------------------------
(* MultiAgentOptimizer.estimate_f1_f4_from_data, simulate_year_from_data *)

\* a row of the simulation data: Cum. Profits, Comp. Systems, Months Completed,
\* Level, Ransomware, Pay Ransom
Row(profit, compromised, months, level, ransomware, pay_ransom) ==
    [profit |-> profit, compromised |-> compromised, months |-> months,
     level |-> level, ransomware |-> ransomware, pay_ransom |-> pay_ransom]

\* the columns of a row
Columns == {"profit", "compromised", "months", "level", "ransomware", "pay_ransom"}

\* the column is not in the Series: row.get(col, default) gives the default
IsMissing(row, col) == "absent" \in DOMAIN row /\ col \in row.absent

\* the cell is NaN: it was empty in the CSV, or to_numeric coerced its text
IsNaN(row, col) ==
    /\ ~IsMissing(row, col)
    /\ "nan" \in DOMAIN row
    /\ col \in row.nan

\* row.get(col, default) for a cell that is a number
SeriesGet(row, col, default) == IF IsMissing(row, col) THEN default ELSE row[col]

\* the float nan
NaN == [nan |-> TRUE]

\* row.get(col, default) * scale / 100 as a float
CellValue(row, col, default, scale) ==
    IF IsNaN(row, col) THEN NaN ELSE Fl(SeriesGet(row, col, default) * scale)

\* f1..f4 after the adjustments for the outcomes, before normalizing; every
\* comparison with nan is False
OutcomeShares(row) ==
    LET profit == SeriesGet(row, "profit", 0)
        compromised == SeriesGet(row, "compromised", 0)
        ransomware == SeriesGet(row, "ransomware", 0)
        pay_ransom == SeriesGet(row, "pay_ransom", 0)
        f == IF ~IsNaN(row, "compromised") /\ compromised < 10
             THEN <<40, 35, 20, 5>>
             ELSE IF ~IsNaN(row, "compromised") /\ compromised > 30
                  THEN <<20, 25, 35, 20>>
             ELSE <<30, 30, 25, 15>>
    IN IF ~IsNaN(row, "profit") /\ profit < 1000
       THEN IF /\ ~IsNaN(row, "ransomware") /\ ransomware = 1
               /\ ~IsNaN(row, "pay_ransom") /\ pay_ransom = 1
            THEN Shares(f[1] - 5, f[2] - 5, f[3] - 5, f[4] - 5)
            ELSE Shares(f[1], f[2], f[3] + 5, f[4] + 5)
       ELSE Shares(f[1], f[2], f[3], f[4])

\* normalize, constrain, normalize again
estimate_f1_f4_from_data(row) == Normalize(Clamp(Normalize(OutcomeShares(row))))

\* the dict returned for a row; noise is the draw of np.random.randint(-3, 3)
\* with a nan compromised, max(0, nan) is 0 and min(1.0, nan) is 1.0
simulate_year_from_data(data_row, noise) ==
    LET nan == IsNaN(data_row, "compromised")
        compromised == SeriesGet(data_row, "compromised", 0)
        availability == IF nan THEN 100 ELSE Max(0, Min(100, 100 - compromised))
    IN ("F" :> estimate_f1_f4_from_data(data_row))
       @@ ("accumulated_profit" :> CellValue(data_row, "profit", 0, 1000 * 100))
       @@ ("compromised_systems" :> CellValue(data_row, "compromised", 0, 100))
       @@ ("systems_availability" :> Fl(availability))
       @@ ("systems_at_risk" :>
              IF nan THEN I(0) ELSE Fl(Max(0, compromised + noise) * 100))
       @@ ("impact_on_business" :>
              IF nan THEN NaN
              ELSE Fl(compromised * 50 + (100 - availability) * 10))
       @@ ("months_completed" :> CellValue(data_row, "months", 60, 100))
       @@ ("level" :> CellValue(data_row, "level", 1, 100))
       @@ ("ransomware" :> CellValue(data_row, "ransomware", 0, 100))
       @@ ("pay_ransom" :> CellValue(data_row, "pay_ransom", 0, 100))

----------------------------------------------------------------------------
(* MultiAgentOptimizer.run_5_year_optimization *)

RECURSIVE SelectRows(_, _)
\* scenario_data[scenario_data['Months Completed'] == months]
SelectRows(data, months) ==
    IF Len(data) = 0 THEN <<>>
    ELSE (IF Head(data).months = months THEN <<Head(data)>> ELSE <<>>)
         \o SelectRows(Tail(data), months)

\* five_year_data: the 60-month rows, all rows when there is none
FiveYearData(scenario_data) ==
    IF Len(SelectRows(scenario_data, 60)) = 0 THEN scenario_data
    ELSE SelectRows(scenario_data, 60)

\* 1000 * score: Cum. Profits / 1000 - Comp. Systems * 10
Score(row) == row.profit - row.compromised * 10000

\* (variant: the first row, whatever its score)
BestIndex_First(data) == 1
\* idxmax: the first row with the highest score
BestIndex(data) ==
    CHOOSE i \in 1..Len(data) :
        /\ \A j \in 1..Len(data) : Score(data[j]) <= Score(data[i])
        /\ \A j \in 1..(i - 1) : Score(data[j]) < Score(data[i])

\* year1_data
Year1Data(five_year_data, initial_strategy) ==
    IF initial_strategy # None THEN five_year_data[1]
    ELSE five_year_data[BestIndex(five_year_data)]

\* the labels every yearly result gets
Labelled(results, year) ==
    results @@ ("year" :> year)
            @@ ("agent_config" :> IF optimizer.collaborative THEN "collaborative"
                                                              ELSE "uncollaborative")
            @@ ("risk_tolerance" :> optimizer.risk_tolerance_level)

\* the draws of np.random.randint(-3, 3) that are explored: its two extremes
RiskNoise == {-3, 2}

\* the optimizers that are run
RunOptimizers ==
    { [agent_config |-> default_config, collaborative |-> TRUE,
       risk_tolerance_level |-> "medium"],
      [agent_config |-> file_config, collaborative |-> FALSE,
       risk_tolerance_level |-> "high"] }

\* rows of the data set; with them the shares stay within the integers of TLC
RowA == Row(500, 5, 60, 1, 0, 0)
RowB == Row(500, 20, 60, 2, 1, 1)
RowC == Row(2000, 10, 60, 1, 0, 0)
RowD == Row(2000, 10, 36, 1, 0, 0)

\* the scenario data the run is given
ScenarioData ==
    { <<>>, <<RowA>>, <<RowD>>, <<RowC, RowA>>, <<RowB, RowC>>, <<RowD, RowB>>,
      <<RowC, RowA, RowB>> }

\* the initial_strategy argument
Strategies == { None, [F1 |-> 25, F2 |-> 25, F3 |-> 25, F4 |-> 25] }

\* whether the next draw repeats one made after the same seed
Replaying(r) == r.pos <= Len(r.tape)

\* (variant: a draw that does not depend on the seed)
Randint_Unseeded(r) == RiskNoise
\* np.random.randint(-3, 3): any of its values from a fresh source, the value
\* drawn before at this position when the source was seeded again
Randint(r) == IF Replaying(r) THEN {r.tape[r.pos]} ELSE RiskNoise

\* np.random.choice(index, p=weights) over n rows
Choice(r, n) == IF Replaying(r) THEN {r.tape[r.pos]} ELSE 1..n

\* the source after a draw
Drawn(r, draw) ==
    [tape |-> IF Replaying(r) THEN r.tape ELSE Append(r.tape, draw), pos |-> r.pos + 1]

\* the method up to years.append(year1_results); on empty data iloc[0] and
\* idxmax raise
Year1 ==
    /\ pc = "start"
    /\ IF Len(FiveYearData(pool)) = 0
       THEN /\ pc' = "raised"
            /\ UNCHANGED <<years, rng>>
       ELSE /\ \E noise \in Randint(rng) :
                 /\ years' = <<Labelled(simulate_year_from_data(
                                   Year1Data(FiveYearData(pool), strategy), noise), 1)>>
                 /\ rng' = Drawn(rng, noise)
            /\ pc' = "loop"
    /\ UNCHANGED <<bots, call, ref, current, alloc, adjustments, calls,
                   optimizer, pool, strategy, metrics, extVars>>

\* (variant: the allocator writes the new shares into the record it was given)
ResultsAfterCall_Written(current_results, f) == ("F" :> f) @@ current_results
\* the dict given to optimize_next_year, after the call: it is only read
ResultsAfterCall(current_results, f) == current_results

\* (variant: the shares estimated from the sampled row are kept)
WithAllocation_Kept(year_results, f) == year_results
\* year_results['F1'] = f1 ... year_results['F4'] = f4
WithAllocation(year_results, f) == ("F" :> f) @@ year_results

\* (variant: the loop left one round early)
NextYear_FourRounds ==
    /\ pc = "loop"
    /\ LET previous_results == years[Len(years)]
           f == optimize_next_year(bots, previous_results)
           five_year_data == FiveYearData(pool)
       IN /\ current' = previous_results
          /\ alloc' = f
          /\ adjustments' = AdjustmentsX2(bots, previous_results)
          /\ calls' = calls + 1
          \* np.random.choice(index, p=weights): every weight exp(..) is positive
          /\ \E sampled_idx \in Choice(rng, Len(five_year_data)) :
             \E noise \in Randint(Drawn(rng, sampled_idx)) :
                /\ years' = Append([years EXCEPT ![Len(years)] =
                                       ResultsAfterCall(previous_results, f)],
                      Labelled(WithAllocation(simulate_year_from_data(
                                   five_year_data[sampled_idx], noise), f), Len(years) + 1))
                /\ rng' = Drawn(Drawn(rng, sampled_idx), noise)
          /\ bots' = [i \in 1..Len(bots) |->
                        SelfAfterCall(SelfAfterCall(bots[i], previous_results),
                                      previous_results)]
    /\ pc' = IF Len(years) + 1 >= 4 THEN "done" ELSE "loop"
    /\ UNCHANGED <<call, ref, optimizer, pool, strategy, metrics, extVars>>
\* one round of `for year in range(2, 6)`
NextYear ==
    /\ pc = "loop"
    /\ LET previous_results == years[Len(years)]
           f == optimize_next_year(bots, previous_results)
           five_year_data == FiveYearData(pool)
       IN /\ current' = previous_results
          /\ alloc' = f
          /\ adjustments' = AdjustmentsX2(bots, previous_results)
          /\ calls' = calls + 1
          \* np.random.choice(index, p=weights): every weight exp(..) is positive
          /\ \E sampled_idx \in Choice(rng, Len(five_year_data)) :
             \E noise \in Randint(Drawn(rng, sampled_idx)) :
                /\ years' = Append([years EXCEPT ![Len(years)] =
                                       ResultsAfterCall(previous_results, f)],
                      Labelled(WithAllocation(simulate_year_from_data(
                                   five_year_data[sampled_idx], noise), f), Len(years) + 1))
                /\ rng' = Drawn(Drawn(rng, sampled_idx), noise)
          /\ bots' = [i \in 1..Len(bots) |->
                        SelfAfterCall(SelfAfterCall(bots[i], previous_results),
                                      previous_results)]
    /\ pc' = IF Len(years) + 1 = 5 THEN "done" ELSE "loop"
    /\ UNCHANGED <<call, ref, optimizer, pool, strategy, metrics, extVars>>

\* y.get(key, 0), in hundredths
Field(y, key) == IF key \in DOMAIN y THEN y[key].h ELSE 0

RECURSIVE SumOf(_, _)
\* sum(y.get(key, 0) for y in years)
SumOf(ys, key) == IF Len(ys) = 0 THEN 0 ELSE Field(Head(ys), key) + SumOf(Tail(ys), key)

\* np.mean([y.get(key, 0) for y in years]) of a list with an element: the
\* exact quotient sum / len, as a fraction in lowest terms
MeanOf(ys, key) ==
    LET total == SumOf(ys, key)
        g == GCD(total, Len(ys))
    IN [n |-> total \div g, d |-> Len(ys) \div g]

\* years[-1].get(key, 0) if years else 0
FinalOf(ys, key) == IF Len(ys) > 0 THEN Field(ys[Len(ys)], key) ELSE 0

\* (variant: the final values taken from the first year)
calculate_5_year_metrics_FirstAsFinal(ys) ==
    [total_profit |-> SumOf(ys, "accumulated_profit"),
     total_compromised_systems |-> SumOf(ys, "compromised_systems"),
     average_compromised_systems |-> MeanOf(ys, "compromised_systems"),
     total_systems_at_risk |-> SumOf(ys, "systems_at_risk"),
     average_systems_at_risk |-> MeanOf(ys, "systems_at_risk"),
     average_availability |-> MeanOf(ys, "systems_availability"),
     final_profit |-> FinalOf(<<Head(ys)>>, "accumulated_profit"),
     final_compromised |-> FinalOf(<<Head(ys)>>, "compromised_systems"),
     final_systems_at_risk |-> FinalOf(<<Head(ys)>>, "systems_at_risk")]
\* MultiAgentOptimizer.calculate_5_year_metrics
calculate_5_year_metrics(ys) ==
    [total_profit |-> SumOf(ys, "accumulated_profit"),
     total_compromised_systems |-> SumOf(ys, "compromised_systems"),
     average_compromised_systems |-> MeanOf(ys, "compromised_systems"),
     total_systems_at_risk |-> SumOf(ys, "systems_at_risk"),
     average_systems_at_risk |-> MeanOf(ys, "systems_at_risk"),
     average_availability |-> MeanOf(ys, "systems_availability"),
     final_profit |-> FinalOf(ys, "accumulated_profit"),
     final_compromised |-> FinalOf(ys, "compromised_systems"),
     final_systems_at_risk |-> FinalOf(ys, "systems_at_risk")]

\* optimizer.calculate_5_year_metrics(years) on the list the run returned;
\* `previous` keeps what the call before returned
CalculateMetrics ==
    /\ pc = "done"
    /\ metrics.calls < MaxMetricsCalls
    /\ metrics' = [calls |-> metrics.calls + 1,
                   out |-> calculate_5_year_metrics(years),
                   previous |-> IF metrics.calls = 0 THEN None ELSE metrics.out]
    /\ UNCHANGED <<bots, call, ref, current, alloc, adjustments, calls,
                   optimizer, pool, strategy, years, rng, extVars, pc>>

\* an optimizer built from a configuration, about to run on scenario data
InitRun ==
    /\ optimizer \in RunOptimizers
    /\ bots = OptimizerAgents(optimizer.agent_config, optimizer.collaborative,
                              optimizer.risk_tolerance_level)
    /\ call = NoCall
    /\ ref = NoCall
    /\ current = <<>>
    /\ alloc = <<>>
    /\ adjustments = <<>>
    /\ calls = 0
    /\ pool \in ScenarioData
    /\ strategy \in Strategies
    /\ years = <<>>
    /\ metrics = NoMetrics
    /\ rng = Seeded
    /\ NoExt
    /\ pc = "start"

\* the steps of run_5_year_optimization
RunStep == Year1 \/ NextYear

\* a second execution: the source seeded as before the first one, an optimizer
\* built again from the same configuration, run on the same data; ref keeps
\* the list the first execution returned
RunAgain ==
    /\ pc = "done"
    /\ ref = NoCall
    /\ ref' = [op |-> "run_5_year_optimization", out |-> years]
    /\ rng' = [rng EXCEPT !.pos = 1]
    /\ bots' = OptimizerAgents(optimizer.agent_config, optimizer.collaborative,
                               optimizer.risk_tolerance_level)
    /\ years' = <<>>
    /\ current' = <<>>
    /\ alloc' = <<>>
    /\ adjustments' = <<>>
    /\ calls' = 0
    /\ pc' = "start"
    /\ UNCHANGED <<call, optimizer, pool, strategy, metrics, extVars>>

NextTwice == RunStep \/ RunAgain

SpecTwice == InitRun /\ [][NextTwice]_vars

NextRun == RunStep \/ CalculateMetrics

SpecRun == InitRun /\ [][NextRun]_vars

\* the method runs to its return: no step of it waits on anything.  This is
\* weak fairness of RunStep, WF_vars(RunStep), written with the enabling
\* condition of RunStep: a step is possible exactly while pc is "start" or
\* "loop", and every step changes pc or years
Running == pc \in {"start", "loop"}

SpecRunFair == SpecRun /\ ([]<>(~Running) \/ []<><<RunStep>>_vars)

----------------------------------------------------------------------------
(* Optimizers built from one shared configuration *)

\* (variant: the personality adjusted in the configuration's own dict, no copy)
ConfigAfterInit_InPlace(agent_config, collaborative, risk_tolerance_level) ==
    [i \in 1..Len(agent_config) |->
        IF agent_config[i].name \in {"IT_Manager", "CHRO", "COO_Business"}
        THEN agent_config[i]
        ELSE [agent_config[i] EXCEPT !.personality =
                 AdjustPersonality(@, collaborative, risk_tolerance_level)]]
\* the configuration dict after MultiAgentOptimizer.__init__ read it: the
\* personality is adjusted on config['personality'].copy(), the target is
\* handed to the agent as it is
ConfigAfterInit(agent_config, collaborative, risk_tolerance_level) == agent_config

\* the target dict of the agent called `name`; agents and configuration hold
\* the same dict object
TargetOf(agents, name, target) ==
    IF \E i \in 1..Len(agents) : agents[i].name = name
    THEN agents[CHOOSE i \in 1..Len(agents) : agents[i].name = name].target
    ELSE target

\* the shared state after the agents of optimizer k became `after`
SharedAfter(k, after) ==
    [shared EXCEPT
        !.config = [i \in 1..Len(shared.config) |->
                      [shared.config[i] EXCEPT
                          !.target = TargetOf(after, shared.config[i].name, @)]],
        !.built = [j \in 1..Len(shared.built) |->
                     IF j = k THEN [shared.built[j] EXCEPT !.agents = after]
                     ELSE [shared.built[j] EXCEPT !.agents =
                              [i \in 1..Len(shared.built[j].agents) |->
                                  [shared.built[j].agents[i] EXCEPT
                                      !.target = TargetOf(after,
                                          shared.built[j].agents[i].name, @)]]]]]

\* the agents of optimizer k after `n` evaluate / recommend calls on `results`
AgentsAfterCalls(k, results, n) ==
    [i \in 1..Len(shared.built[k].agents) |->
        IF n = 1 THEN SelfAfterCall(shared.built[k].agents[i], results)
        ELSE SelfAfterCall(SelfAfterCall(shared.built[k].agents[i], results), results)]

\* MultiAgentOptimizer(agent_config, collaborative, risk_tolerance_level)
Construct(collaborative, risk_tolerance_level) ==
    /\ pc = "shared"
    /\ Len(shared.built) < MaxOptimizers
    /\ shared' = [shared EXCEPT
          !.config = ConfigAfterInit(shared.config, collaborative, risk_tolerance_level),
          !.built = Append(@, [collaborative |-> collaborative,
                               risk_tolerance_level |-> risk_tolerance_level,
                               agents |-> OptimizerAgents(shared.config, collaborative,
                                                          risk_tolerance_level)])]
    /\ UNCHANGED <<bots, call, ref, current, alloc, adjustments, calls, runVars,
                   rng, fs, db, req, pc>>

\* optimizer k: self.board.run_meeting(results)
OptimizerMeeting(k, results) ==
    /\ pc = "shared"
    /\ k \in 1..Len(shared.built)
    /\ call' = [op |-> "run_meeting", bot |-> k, results |-> results,
                out |-> run_meeting(shared.built[k].agents, results)]
    /\ shared' = SharedAfter(k, AgentsAfterCalls(k, results, 1))
    /\ UNCHANGED <<bots, ref, current, alloc, adjustments, calls, runVars,
                   rng, fs, db, req, pc>>

\* optimizer k: self.board.negotiate_strategy(results)
OptimizerNegotiate(k, results) ==
    /\ pc = "shared"
    /\ k \in 1..Len(shared.built)
    /\ call' = [op |-> "negotiate_strategy", bot |-> k, results |-> results,
                out |-> negotiate_strategy(shared.built[k].agents, results)]
    /\ shared' = SharedAfter(k, AgentsAfterCalls(k, results, 1))
    /\ UNCHANGED <<bots, ref, current, alloc, adjustments, calls, runVars,
                   rng, fs, db, req, pc>>

\* optimizer k: self.optimize_next_year(results, scenario_data), the step the
\* 5-year loop repeats
OptimizerAllocate(k, results) ==
    /\ pc = "shared"
    /\ k \in 1..Len(shared.built)
    /\ call' = [op |-> "optimize_next_year", bot |-> k, results |-> results,
                out |-> optimize_next_year(shared.built[k].agents, results)]
    /\ shared' = SharedAfter(k, AgentsAfterCalls(k, results, 2))
    /\ UNCHANGED <<bots, ref, current, alloc, adjustments, calls, runVars,
                   rng, fs, db, req, pc>>

\* a configuration just loaded; `loaded` keeps its value at that time
InitShared ==
    /\ \E c \in AgentConfigs : shared = [config |-> c, loaded |-> c, built |-> <<>>]
    /\ bots = <<>>
    /\ call = NoCall
    /\ ref = NoCall
    /\ current = <<>>
    /\ alloc = <<>>
    /\ adjustments = <<>>
    /\ calls = 0
    /\ optimizer = <<>>
    /\ pool = <<>>
    /\ strategy = None
    /\ years = <<>>
    /\ metrics = NoMetrics
    /\ rng = Seeded
    /\ fs = <<>>
    /\ db = <<>>
    /\ req = <<>>
    /\ pc = "shared"

\* the optimizers are built and called in any interleaving
NextShared ==
    \/ \E collab \in BOOLEAN, lvl \in RiskLevels : Construct(collab, lvl)
    \/ \E k \in 1..MaxOptimizers, r \in RepeatRecords : OptimizerMeeting(k, r)
    \/ \E k \in 1..MaxOptimizers, r \in RepeatRecords : OptimizerNegotiate(k, r)
    \/ \E k \in 1..MaxOptimizers, r \in RepeatRecords : OptimizerAllocate(k, r)

SpecShared == InitShared /\ [][NextShared]_vars

----------------------------------------------------------------------------
(* load_agent_config *)

RECURSIVE Entries(_, _)
\* the entries of a configuration whose position is in `keep`, in order
Entries(agent_config, keep) ==
    IF Len(agent_config) = 0 THEN <<>>
    ELSE Entries(SubSeq(agent_config, 1, Len(agent_config) - 1), keep)
         \o (IF Len(agent_config) \in keep
             THEN <<agent_config[Len(agent_config)]>> ELSE <<>>)

\* the agent dicts a configuration file may hold
FileAgents ==
    { Entries(c, keep) : c \in AgentConfigs, keep \in SUBSET (1..5) }

\* what json.load returns: a dict (its 'agents' entry, or the dict itself as
\* `value`), or a value of another JSON type
JsonDicts ==
    { [type |-> "dict", has_agents |-> FALSE, agents |-> <<>>, value |-> a] :
          a \in FileAgents }
    \cup { [type |-> "dict", has_agents |-> TRUE, agents |-> a, value |-> <<>>] :
          a \in FileAgents }

JsonOthers ==
    { [type |-> t, has_agents |-> h, agents |-> <<>>, value |-> <<>>] :
          t \in {"list", "str"}, h \in BOOLEAN }
    \cup { [type |-> t, has_agents |-> FALSE, agents |-> <<>>, value |-> <<>>] :
          t \in {"number", "null", "bool"} }

\* the states of the file: missing; there but open() raises; not JSON; JSON
Files ==
    { [exists |-> FALSE, readable |-> FALSE, parses |-> FALSE, json |-> None],
      [exists |-> TRUE, readable |-> FALSE, parses |-> FALSE, json |-> None],
      [exists |-> TRUE, readable |-> TRUE, parses |-> FALSE, json |-> None] }
    \cup { [exists |-> TRUE, readable |-> TRUE, parses |-> TRUE, json |-> j] :
              j \in JsonDicts \cup JsonOthers }

\* (variant: the parsed file returned whole, the 'agents' entry not looked up)
load_agent_config_WholeFile(file) ==
    IF file.exists /\ file.readable /\ file.parses
    THEN IF file.json.type = "dict" THEN file.json.value ELSE file.json
    ELSE default_config
\* load_agent_config(config_file).  `'agents' in config` raises TypeError on
\* a number, null or bool, and config['agents'] raises it on a list or str
\* that holds 'agents'; every Exception inside the try falls through to
\* the default
load_agent_config(file) ==
    IF ~file.exists THEN default_config
    ELSE IF ~file.readable \/ ~file.parses THEN default_config
    ELSE LET config == file.json IN
         IF config.type \in {"number", "null", "bool"} THEN default_config
         ELSE IF config.has_agents
              THEN IF config.type = "dict" THEN config.agents ELSE default_config
              ELSE IF config.type = "dict" THEN config.value ELSE config

\* load_agent_config() on the file as it is
LoadAgentConfig ==
    /\ pc = "config"
    /\ call' = [op |-> "load_agent_config", bot |-> 0, results |-> <<>>,
                out |-> load_agent_config(fs)]
    /\ pc' = "loaded"
    /\ UNCHANGED <<bots, ref, current, alloc, adjustments, calls, runVars,
                   rng, shared, fs, db, req>>

InitConfig ==
    /\ fs \in Files
    /\ bots = <<>>
    /\ call = NoCall
    /\ ref = NoCall
    /\ current = <<>>
    /\ alloc = <<>>
    /\ adjustments = <<>>
    /\ calls = 0
    /\ optimizer = <<>>
    /\ pool = <<>>
    /\ strategy = None
    /\ years = <<>>
    /\ metrics = NoMetrics
    /\ rng = Seeded
    /\ shared = <<>>
    /\ db = <<>>
    /\ req = <<>>
    /\ pc = "config"

NextConfig == LoadAgentConfig

SpecConfig == InitConfig /\ [][NextConfig]_vars

----------------------------------------------------------------------------
(* Properties of the evaluator, the recommendation rule and the panel *)

Contains(msg, piece) == \E i \in DOMAIN msg : msg[i] = piece

\* the status a message of evaluate reports, "none" when it reports none
StatusReported(msg) ==
    IF \E i \in 1..(Len(msg) - 1) : msg[i] = ", status="
    THEN msg[(CHOOSE i \in 1..(Len(msg) - 1) : msg[i] = ", status=") + 1]
    ELSE "none"

\* the last call was method op on one bot, whose focus KPI the record has
CallWithKpi(op) ==
    /\ call.op = op
    /\ bots[call.bot].kpi_focus \in DOMAIN call.results

CallValue == call.results[bots[call.bot].kpi_focus].h
CallTarget == bots[call.bot].target
CallTraits == bots[call.bot].personality

\* the comparison of a value with a target, absent bounds being infinite
IsBelow(v, target) == "min" \in DOMAIN target /\ v < target["min"]
IsAbove(v, target) == ~IsBelow(v, target) /\ "max" \in DOMAIN target /\ v > target["max"]

\* C4: evaluate reports below target exactly when v < min, above target exactly
\* when v >= min and v > max, on target otherwise (absent bounds are infinite),
\* so a value equal to min or to max is on target.
C4_StatusRule ==
    CallWithKpi("evaluate") =>
        StatusReported(call.out) =
            IF IsBelow(CallValue, CallTarget) THEN "below target"
            ELSE IF IsAbove(CallValue, CallTarget) THEN "above target"
            ELSE "on target"

\* a value equal to the max of a two-sided target was evaluated as on target
C4_Witness ==
    /\ CallWithKpi("evaluate")
    /\ DOMAIN CallTarget = {"min", "max"}
    /\ CallValue = CallTarget["max"]
    /\ StatusReported(call.out) = "on target"

\* C5: with the focus KPI absent, evaluate and recommend return their
\* field-missing message and report no status or directive; fields of the record
\* other than the focus KPI never change the result.
C5_MissingKpi ==
    call.op \in {"evaluate", "recommend"} =>
        LET self == bots[call.bot]
            focusOnly == [k \in DOMAIN call.results \cap {self.kpi_focus} |->
                             call.results[k]]
        IN /\ self.kpi_focus \notin DOMAIN call.results =>
                  /\ call.op = "evaluate" =>
                         call.out = <<self.name, ": KPI '", self.kpi_focus,
                                      "' not found in results">>
                  /\ call.op = "recommend" =>
                         call.out = <<self.name, ": Cannot recommend without ",
                                      self.kpi_focus, " data">>
                  /\ StatusReported(call.out) = "none"
           /\ call.op = "evaluate" => call.out = evaluate(self, focusOnly)
           /\ call.op = "recommend" => call.out = recommend(self, focusOnly)

\* recommend ran on a record that has other fields but not the focus KPI
C5_Witness ==
    /\ call.op = "recommend"
    /\ bots[call.bot].kpi_focus \notin DOMAIN call.results
    /\ DOMAIN call.results # {}
    /\ Contains(call.out, ": Cannot recommend without ")

\* C6: recommend returns increase-aggressively below min with risk_tolerance > 0.6,
\* increase-gradually below min otherwise, reduce/optimize above max whatever the
\* risk_tolerance, maintain-but-explore on target with ambition > 0.7, and
\* maintain otherwise.
C6_RecommendRule ==
    CallWithKpi("recommend") =>
        call.out = <<bots[call.bot].name,
            IF IsBelow(CallValue, CallTarget)
            THEN IF CallTraits.risk_tolerance > 60
                 THEN ": Increase investment aggressively to reach target"
                 ELSE ": Gradual increase recommended to reach target"
            ELSE IF IsAbove(CallValue, CallTarget)
            THEN ": Reduce spending and optimize efficiency"
            ELSE IF CallTraits.ambition > 70
            THEN ": Maintain strategy but explore optimization opportunities"
            ELSE ": Maintain current strategy">>

\* below min with risk_tolerance exactly 0.6: the gradual directive
C6_Witness ==
    /\ CallWithKpi("recommend")
    /\ IsBelow(CallValue, CallTarget)
    /\ CallTraits.risk_tolerance = 60
    /\ call.out[2] = ": Gradual increase recommended to reach target"

\* C7: a call repeated on the same bot with the same record, whatever calls were
\* made in between, returns the same string as before.
C7_RepeatedCall ==
    (ref.op = call.op /\ ref.bot = call.bot /\ ref.results = call.results)
        => ref.out = call.out

\* an evaluate call was repeated, with the focus KPI present
C7_Witness ==
    /\ ref.op = "evaluate" /\ call.op = "evaluate"
    /\ ref.bot = call.bot /\ ref.results = call.results
    /\ bots[call.bot].kpi_focus \in DOMAIN call.results
    /\ ref.out = call.out

Aggressive == " (willing to take aggressive action)"
Cautious == " (cautious, prefers gradual improvements)"
Pushing == " (pushing hard for improvement)"
Concerned == " (concerned about sustainability)"
WantsHigher == " (wants even higher targets)"
Satisfied == " (satisfied with team performance)"

\* C8: the evaluation never carries both the cautious and the aggressive clause,
\* and below target with risk_tolerance > 0.7 it carries the aggressive clause.
C8_NoContradiction ==
    CallWithKpi("evaluate") =>
        /\ ~(Contains(call.out, Cautious) /\ Contains(call.out, Aggressive))
        /\ (StatusReported(call.out) = "below target" /\ CallTraits.risk_tolerance > 70)
               => Contains(call.out, Aggressive)

\* below target with risk_tolerance > 0.7: the aggressive clause alone of the two
C8_Witness ==
    /\ CallWithKpi("evaluate")
    /\ StatusReported(call.out) = "below target"
    /\ CallTraits.risk_tolerance > 70
    /\ Contains(call.out, Aggressive)
    /\ ~Contains(call.out, Cautious)

\* C9: each of the six clauses is in the evaluation exactly when its own trait cut
\* and status hold, independently of the other clauses.
C9_IndependentClauses ==
    CallWithKpi("evaluate") =>
        LET st == StatusReported(call.out) IN
        /\ Contains(call.out, Aggressive)
              <=> (st = "below target" /\ CallTraits.risk_tolerance > 70)
        /\ Contains(call.out, Cautious)
              <=> (st = "below target" /\ CallTraits.risk_tolerance < 30)
        /\ Contains(call.out, Pushing)
              <=> (st = "below target" /\ CallTraits.ambition > 80)
        /\ Contains(call.out, Concerned)
              <=> (st = "above target" /\ CallTraits.risk_tolerance < 30)
        /\ Contains(call.out, WantsHigher)
              <=> (st = "above target" /\ CallTraits.ambition > 80)
        /\ Contains(call.out, Satisfied)
              <=> (st = "on target" /\ CallTraits.friendliness > 70)

\* C10: run_meeting and negotiate_strategy return one result per bot, the i-th
\* being the evaluate (recommend) output of the i-th bot in panel order.
C10_PanelOrder ==
    /\ call.op = "run_meeting" =>
           /\ Len(call.out) = Len(bots)
           /\ \A i \in 1..Len(bots) : call.out[i] = evaluate(bots[i], call.results)
    /\ call.op = "negotiate_strategy" =>
           /\ Len(call.out) = Len(bots)
           /\ \A i \in 1..Len(bots) : call.out[i] = recommend(bots[i], call.results)

\* a meeting of a panel whose insertion order is not the order of the names
C10_Witness ==
    /\ call.op = "run_meeting"
    /\ Len(bots) >= 3
    /\ bots[1].name = "CRO" /\ bots[2].name = "CFO"
    /\ call.out[1][1] = "CRO" /\ call.out[2][1] = "CFO"
    /\ Contains(call.out[1], ", status=")

\* the mean friendliness of the panel is above 0.7
MeanFriendlinessAbove == SumFriendliness(bots) > 70 * Len(bots)

----------------------------------------------------------------------------
(* Properties of the allocator *)

\* optimize_next_year has returned
Allocated == pc = "allocated"

\* C1: after every call of optimize_next_year the returned shares sum to 100.
C1_SumIs100 == Allocated => Sum4(alloc.n) = 100 * alloc.d

\* a call in which a clamp changed the total: the shares were scaled back to 100
C1_Witness ==
    /\ Allocated
    /\ Sum4(Clamp(Adjusted(bots, current)).n) # 100 * Clamp(Adjusted(bots, current)).d
    /\ Sum4(alloc.n) = 100 * alloc.d

\* C2: after every call of optimize_next_year F1 and F2 lie in [10,60] and F3
\* and F4 in [5,50].
C2_SharesInBounds == Allocated => InBounds(alloc)

\* the agents named `name` whose focus KPI is in the record given to the
\* allocator and is below their min (below = TRUE) or above their max
Firing(name, below) ==
    { i \in 1..Len(bots) :
        /\ bots[i].name = name
        /\ bots[i].kpi_focus \in DOMAIN current
        /\ LET v == current[bots[i].kpi_focus].h
               t == bots[i].target
           IN IF below THEN "min" \in DOMAIN t /\ v < t["min"]
                       ELSE "max" \in DOMAIN t /\ v > t["max"] }

\* C12: the delta added to the previous allocation before the clamp is the
\* sum over the agents of (+2, +1, -1.5, -1.5) for a CFO below its min,
\* (+3, +2, -2, -3) for a CRO above its max, (+1.5, +1, -1, -1.5) for a COO
\* below its min, and nothing for any other agent (another name, or a focus
\* KPI absent from the record); the model holds twice the delta
C12_DeltaIsSumOfRules ==
    Allocated =>
        LET cfo == Cardinality(Firing("CFO", TRUE))
            cro == Cardinality(Firing("CRO", FALSE))
            coo == Cardinality(Firing("COO", TRUE))
        IN adjustments = << 4 * cfo + 6 * cro + 3 * coo,
                            2 * cfo + 4 * cro + 2 * coo,
                            -3 * cfo - 4 * cro - 2 * coo,
                            -3 * cfo - 6 * cro - 3 * coo >>

\* the three rules fire together
C12_Witness ==
    /\ Allocated
    /\ Firing("CFO", TRUE) # {} /\ Firing("CRO", FALSE) # {} /\ Firing("COO", TRUE) # {}
    /\ adjustments = <<13, 8, -9, -12>>

\* clamp_i(previous Fi + delta_i), over the denominator 2 * d of the
\* previous allocation
ClampedSum ==
    LET cur == CurrentAllocation(current)
    IN [n |-> [i \in 1..4 |->
                 Max(2 * Lo[i] * cur.d,
                     Min(2 * Hi[i] * cur.d, 2 * cur.n[i] + adjustments[i] * cur.d))],
        d |-> 2 * cur.d]

\* C13: optimize_next_year clamps first and scales second: each returned Fi
\* is clamp_i(previous Fi + delta_i) * 100 / (sum of the four clamped
\* values), so the clamped values keep their ratios and nothing is clamped
\* after the scaling
C13_ClampThenScale ==
    Allocated =>
        LET c == ClampedSum IN
        /\ \A i \in 1..4 : alloc.n[i] * Sum4(c.n) = 100 * c.n[i] * alloc.d
        /\ \A i, j \in 1..4 : alloc.n[i] * c.n[j] = alloc.n[j] * c.n[i]

\* the clamp binds and the scaling moves a clamped share out of its bound
C13_Witness ==
    /\ Allocated
    /\ \E i \in 1..4 :
          ClampedSum.n[i] # 2 * CurrentAllocation(current).n[i]
                             + adjustments[i] * CurrentAllocation(current).d
    /\ Sum4(ClampedSum.n) # 100 * ClampedSum.d
    /\ ~InBounds(alloc)

----------------------------------------------------------------------------
(* Properties of the 5-year run *)

\* C3: in every yearly result of run_5_year_optimization the stored F1..F4 sum
\* to 100 and each lies within its bound.
C3_YearSharesValid ==
    \A y \in 1..Len(years) :
        /\ Sum4(years[y]["F"].n) = 100 * years[y]["F"].d
        /\ InBounds(years[y]["F"])

C15_SharesFromAllocator ==
    /\ [](pc \in {"loop", "done"} =>
            /\ calls = Len(years) - 1
            /\ \A n \in 2..Len(years) :
                  years[n]["F"] = optimize_next_year(bots, years[n - 1]))
    /\ [][calls' # calls =>
            /\ calls' = calls + 1
            /\ current' = years[Len(years)]
            /\ years' = Append(years, years'[Len(years')])
            /\ years'[Len(years')]["F"] = alloc']_vars

\* a second record whose shares are not the estimate from any row of the pool
C15_Witness ==
    /\ pc \in {"loop", "done"}
    /\ Len(years) >= 2
    /\ calls = Len(years) - 1
    /\ years[2]["F"] = alloc
    /\ \A i \in 1..Len(pool) : years[2]["F"] # estimate_f1_f4_from_data(pool[i])

\* C16: with an initial strategy, year 1 is seeded from it: the shares stored
\* in the first record (the allocation year 2 starts from) are the supplied
\* values
C16_SeededFromStrategy ==
    (strategy # None /\ Len(years) >= 1) =>
        years[1]["F"] = Shares(strategy.F1, strategy.F2, strategy.F3, strategy.F4)

\* the rows year 1 is chosen from: the 60-month rows, or all rows when
\* there is none
Year1Pool ==
    LET sixty == SelectSeq(pool, LAMBDA r : r.months = 60)
    IN IF Len(sixty) > 0 THEN sixty ELSE pool

\* C17: without an initial strategy, on a pool with a row, the first record
\* is built from a row whose score profit / 1000 - compromised * 10 is the
\* highest of the pool (the 60-month rows when there is one, else all rows)
C17_BestScoreRow ==
    (strategy = None /\ Len(pool) > 0 /\ Len(years) >= 1) =>
        \E i \in 1..Len(Year1Pool) :
            /\ \A j \in 1..Len(Year1Pool) :
                  Year1Pool[j].profit - 10000 * Year1Pool[j].compromised
                      <= Year1Pool[i].profit - 10000 * Year1Pool[i].compromised
            /\ \E noise \in RiskNoise :
                  years[1] = Labelled(simulate_year_from_data(Year1Pool[i], noise), 1)

\* the best row is not the first of the pool
C17_Witness ==
    /\ strategy = None
    /\ pool = <<RowC, RowA>>
    /\ Len(years) >= 1
    /\ years[1]["compromised_systems"] = Fl(RowA.compromised * 100)
    /\ years[1]["compromised_systems"] # Fl(RowC.compromised * 100)

\* C18: an empty pool is not an error: the run does not raise, it falls
\* back to mock records and still produces yearly results
C18_EmptyPoolFallsBack ==
    (Len(pool) = 0 /\ pc # "start") => (pc # "raised" /\ Len(years) >= 1)

\* C19: a record is never changed once appended: the allocator leaves the
\* record it is given as it was, and making the later years leaves the
\* earlier ones as they were
C19_RecordsFrozen ==
    [][/\ Len(years') >= Len(years)
       /\ \A n \in 1..Len(years) : years'[n] = years[n]
       /\ calls' # calls => current' = years[Len(years)] /\ years'[Len(years)] = current'
      ]_vars

\* all five years made, the first four as the allocator was given them
C19_Witness ==
    /\ Len(years) = 5
    /\ calls = 4
    /\ current = years[4]
    /\ years[1] # years[5]

\* C20: the metrics are a function of the list of years only: totals are
\* sums, averages are sums divided by the number of years, finals are the
\* last year's values; a second call returns the same metrics, and the list
\* is left as it was
C20_MetricsOfYears ==
    /\ [](metrics.calls >= 1 =>
            LET out == metrics.out
                S(key) == years[1][key].h + years[2][key].h + years[3][key].h
                          + years[4][key].h + years[5][key].h
            IN /\ Len(years) = 5
               /\ out.total_profit = S("accumulated_profit")
               /\ out.total_compromised_systems = S("compromised_systems")
               /\ out.total_systems_at_risk = S("systems_at_risk")
               /\ out.average_compromised_systems.n * 5
                     = S("compromised_systems") * out.average_compromised_systems.d
               /\ out.average_systems_at_risk.n * 5
                     = S("systems_at_risk") * out.average_systems_at_risk.d
               /\ out.average_availability.n * 5
                     = S("systems_availability") * out.average_availability.d
               /\ out.final_profit = years[5]["accumulated_profit"].h
               /\ out.final_compromised = years[5]["compromised_systems"].h
               /\ out.final_systems_at_risk = years[5]["systems_at_risk"].h
               /\ metrics.calls >= 2 => metrics.previous = out)
    /\ [][metrics' # metrics => years' = years]_vars

\* two calls made, on years that differ in what the finals read
C20_Witness ==
    /\ metrics.calls = 2
    /\ metrics.previous = metrics.out
    /\ years[1]["compromised_systems"] # years[5]["compromised_systems"]
    /\ metrics.out.final_compromised = years[5]["compromised_systems"].h

----------------------------------------------------------------------------
(* SimulationDataLoader.load_data and one row given to simulate_year_from_data *)

\* the cells a CSV column may hold: a number, nothing, or other text
CsvCells(numbers) ==
    {[num |-> n] : n \in numbers} \cup {[text |-> ""], [text |-> "n/a"]}

\* rows of a CSV file with all six columns
FullCsvRows ==
    [profit : CsvCells({500, 2000}), compromised : CsvCells({5, 20, 40}),
     months : {[num |-> 60]}, level : {[num |-> 1]},
     ransomware : {[num |-> 0], [num |-> 1], [text |-> ""]},
     pay_ransom : {[num |-> 1]}]

\* rows of CSV files, some without one or two of the columns
CsvRows ==
    {[col \in Columns \ absent |-> full[col]] :
        full \in FullCsvRows,
        absent \in {{}, {"profit"}, {"compromised"}, {"ransomware", "pay_ransom"}}}

\* the cell is a number
IsNumber(csv, col) == "num" \in DOMAIN csv[col]

\* 'Cum. Profits' as str, without commas, as float: an empty cell reads as
\* nan, other text raises ValueError
ProfitRaises(csv) ==
    /\ "profit" \in DOMAIN csv
    /\ ~IsNumber(csv, "profit")
    /\ csv["profit"].text # ""

\* the row of the DataFrame after load_data: to_numeric(errors='coerce')
\* leaves nan where the cell is not a number
load_data(csv) ==
    [col \in Columns |->
        IF col \in DOMAIN csv /\ IsNumber(csv, col) THEN csv[col].num ELSE 0]
    @@ [nan |-> {col \in DOMAIN csv : ~IsNumber(csv, col)},
        absent |-> Columns \ DOMAIN csv]

\* SimulationDataLoader(csv_path)
LoadData ==
    /\ pc = "csv"
    /\ IF ProfitRaises(fs.csv)
       THEN pc' = "raised" /\ UNCHANGED pool
       ELSE pc' = "rows" /\ pool' = <<load_data(fs.csv)>>
    /\ UNCHANGED <<bots, call, ref, current, alloc, adjustments, calls,
                   optimizer, strategy, years, metrics, rng, shared, fs, db, req>>

\* simulate_year_from_data(row) on the row loaded
SimulateYear ==
    /\ pc = "rows"
    /\ \E noise \in Randint(rng) :
          /\ years' = <<simulate_year_from_data(pool[1], noise)>>
          /\ rng' = Drawn(rng, noise)
    /\ pc' = "simulated"
    /\ UNCHANGED <<bots, call, ref, current, alloc, adjustments, calls,
                   optimizer, pool, strategy, metrics, shared, fs, db, req>>

InitRow ==
    /\ \E csv \in CsvRows : fs = [csv |-> csv]
    /\ bots = <<>>
    /\ call = NoCall
    /\ ref = NoCall
    /\ current = <<>>
    /\ alloc = <<>>
    /\ adjustments = <<>>
    /\ calls = 0
    /\ optimizer = <<>>
    /\ pool = <<>>
    /\ strategy = None
    /\ years = <<>>
    /\ metrics = NoMetrics
    /\ rng = Seeded
    /\ shared = <<>>
    /\ db = <<>>
    /\ req = <<>>
    /\ pc = "csv"

NextRow == LoadData \/ SimulateYear

SpecRow == InitRow /\ [][NextRow]_vars

\* the row with 0 in every cell that is nan or whose column is missing
ZeroFilled(row) ==
    [col \in Columns |->
        IF IsMissing(row, col) \/ IsNaN(row, col) THEN 0 ELSE row[col]]

----------------------------------------------------------------------------
(* The document store: ThresholdManager and SimulationComparator *)

\* documents the three collections may hold together in the model
MaxDocs == 2

\* str(n): a Python str, held in a record so that it compares with None
Str(n) == [str |-> ToString(n)]

\* the dict {}
EmptyDict == [k \in {} |-> 0]

\* ObjectId(threshold_id); 0 stands for the InvalidId it raises
ObjectId(threshold_id) ==
    IF \E n \in 1..(MaxDocs + 1) : Str(n) = threshold_id
    THEN CHOOSE n \in 1..(MaxDocs + 1) : Str(n) = threshold_id
    ELSE 0

\* init_mongodb(): the cached _db, or a new connection, or None
init_mongodb(d) ==
    IF d.connected THEN d
    ELSE IF d.reachable THEN [d EXCEPT !.connected = TRUE]
    ELSE None

\* find_one({"_id": n})
FindOne(collection, n) ==
    IF n \in 1..Len(collection) THEN collection[n] ELSE None

\* doc["_id"] = str(doc["_id"])
WithStrId(doc) == [doc EXCEPT !._id = Str(@)]

\* the same for each document of a cursor
WithStrIds(docs) == [i \in 1..Len(docs) |-> WithStrId(docs[i])]

\* update_one({"_id": n}, {"$set": updates}) on the thresholds collection
UpdateOne(thresholds, n, updates) ==
    [i \in 1..Len(thresholds) |->
        IF i = n THEN [thresholds[i] EXCEPT !.is_active =
                          IF "is_active" \in DOMAIN updates
                          THEN updates["is_active"] ELSE @,
                                           !.description =
                          IF "description" \in DOMAIN updates
                          THEN updates["description"] ELSE @]
        ELSE thresholds[i]]

\* (variant: the document is inserted whether or not the store answers)
create_threshold_Written(d, agent_name, kpi_name, min_value, max_value, target_value) ==
    [db |-> [d EXCEPT !.thresholds = Append(@,
                [_id |-> Len(d.thresholds) + 1, agent_name |-> agent_name,
                 kpi_name |-> kpi_name, min_value |-> min_value,
                 max_value |-> max_value, target_value |-> target_value,
                 description |-> "", is_active |-> TRUE])],
     out |-> Str(Len(d.thresholds) + 1)]
create_threshold(d, agent_name, kpi_name, min_value, max_value, target_value) ==
    LET db0 == init_mongodb(d) IN
    IF db0 = None THEN [db |-> d, out |-> None]
    ELSE IF ~db0.reachable THEN [db |-> db0, out |-> None]
    ELSE [db |-> [db0 EXCEPT !.thresholds = Append(@,
                    [_id |-> Len(db0.thresholds) + 1, agent_name |-> agent_name,
                     kpi_name |-> kpi_name, min_value |-> min_value,
                     max_value |-> max_value, target_value |-> target_value,
                     description |-> "", is_active |-> TRUE])],
          out |-> Str(Len(db0.thresholds) + 1)]

get_threshold(d, threshold_id) ==
    LET db0 == init_mongodb(d) IN
    IF db0 = None THEN [db |-> d, out |-> None]
    ELSE IF ~db0.reachable \/ ObjectId(threshold_id) = 0 THEN [db |-> db0, out |-> None]
    ELSE LET threshold == FindOne(db0.thresholds, ObjectId(threshold_id)) IN
         [db |-> db0,
          out |-> IF threshold # None THEN WithStrId(threshold) ELSE None]

get_agent_thresholds(d, agent_name) ==
    LET db0 == init_mongodb(d) IN
    IF db0 = None THEN [db |-> d, out |-> <<>>]
    ELSE IF ~db0.reachable THEN [db |-> db0, out |-> <<>>]
    ELSE [db |-> db0,
          out |-> WithStrIds(SelectSeq(db0.thresholds,
                     LAMBDA t : t.agent_name = agent_name /\ t.is_active))]

\* moved is whether utcnow() differs from the stored updated_at, which alone
\* makes modified_count 1 when the other fields keep their values
update_threshold(d, threshold_id, updates, moved) ==
    LET db0 == init_mongodb(d) IN
    IF db0 = None THEN [db |-> d, out |-> FALSE]
    ELSE IF ~db0.reachable \/ ObjectId(threshold_id) = 0 THEN [db |-> db0, out |-> FALSE]
    ELSE LET after == UpdateOne(db0.thresholds, ObjectId(threshold_id), updates) IN
         [db |-> [db0 EXCEPT !.thresholds = after],
          out |-> /\ FindOne(db0.thresholds, ObjectId(threshold_id)) # None
                  /\ (after # db0.thresholds \/ moved)]

delete_threshold(d, threshold_id, moved) ==
    LET db0 == init_mongodb(d) IN
    IF db0 = None THEN [db |-> d, out |-> FALSE]
    ELSE IF ~db0.reachable \/ ObjectId(threshold_id) = 0 THEN [db |-> db0, out |-> FALSE]
    ELSE LET after == UpdateOne(db0.thresholds, ObjectId(threshold_id),
                                [is_active |-> FALSE]) IN
         [db |-> [db0 EXCEPT !.thresholds = after],
          out |-> /\ FindOne(db0.thresholds, ObjectId(threshold_id)) # None
                  /\ (after # db0.thresholds \/ moved)]

\* (variant: find() without the is_active filter)
get_all_thresholds_Every(d) ==
    LET db0 == init_mongodb(d) IN
    IF db0 = None THEN [db |-> d, out |-> <<>>]
    ELSE IF ~db0.reachable THEN [db |-> db0, out |-> <<>>]
    ELSE [db |-> db0, out |-> WithStrIds(db0.thresholds)]
get_all_thresholds(d) ==
    LET db0 == init_mongodb(d) IN
    IF db0 = None THEN [db |-> d, out |-> <<>>]
    ELSE IF ~db0.reachable THEN [db |-> db0, out |-> <<>>]
    ELSE [db |-> db0,
          out |-> WithStrIds(SelectSeq(db0.thresholds, LAMBDA t : t.is_active))]

\* the status of lines 249-257; the test of the band is target_value -
\* tolerance <= actual_value <= target_value + tolerance with tolerance =
\* abs(target_value) * 0.1, all sides multiplied by 10
RunStatus(actual_value, target_value, min_value, max_value) ==
    IF min_value # None /\ actual_value.h < min_value.h THEN "below_min"
    ELSE IF max_value # None /\ actual_value.h > max_value.h THEN "above_max"
    ELSE IF target_value # None
         THEN LET tolerance10 == Abs(target_value.h) IN
              IF /\ 10 * target_value.h - tolerance10 <= 10 * actual_value.h
                 /\ 10 * actual_value.h <= 10 * target_value.h + tolerance10
              THEN "on_target" ELSE "off_target"
    ELSE "on_target"

log_simulation_run(d, simulation_id, threshold_id, agent_name, kpi_name, actual_value, target_value, min_value, max_value) ==
    LET db0 == init_mongodb(d) IN
    IF db0 = None THEN [db |-> d, out |-> None]
    ELSE IF ~db0.reachable THEN [db |-> db0, out |-> None]
    ELSE [db |-> [db0 EXCEPT !.simulation_runs = Append(@,
                    [_id |-> Len(db0.simulation_runs) + 1,
                     simulation_id |-> simulation_id, threshold_id |-> threshold_id,
                     agent_name |-> agent_name, kpi_name |-> kpi_name,
                     actual_value |-> actual_value, target_value |-> target_value,
                     min_value |-> min_value, max_value |-> max_value,
                     status |-> RunStatus(actual_value, target_value,
                                          min_value, max_value)])],
          out |-> Str(Len(db0.simulation_runs) + 1)]

\* len([r for r in runs if r["status"] == "on_target"])
Passed(runs) == Len(SelectSeq(runs, LAMBDA r : r.status = "on_target"))

\* by_agent is results_by_agent of lines 295-310 (the timestamp is left out)
get_simulation_results(d, simulation_id) ==
    LET db0 == init_mongodb(d) IN
    IF db0 = None THEN [db |-> d, out |-> EmptyDict]
    ELSE IF ~db0.reachable THEN [db |-> db0, out |-> EmptyDict]
    ELSE LET runs == WithStrIds(SelectSeq(db0.simulation_runs,
                        LAMBDA r : r.simulation_id = simulation_id)) IN
         [db |-> db0,
          out |-> [total_runs |-> Len(runs),
                   passed |-> Passed(runs),
                   failed |-> Len(runs) - Passed(runs),
                   by_agent |->
                      [agent \in {runs[i].agent_name : i \in 1..Len(runs)} |->
                         [kpi \in {runs[i].kpi_name :
                                    i \in {j \in 1..Len(runs) :
                                             runs[j].agent_name = agent}} |->
                            LET mine == SelectSeq(runs,
                                           LAMBDA r : r.agent_name = agent
                                                      /\ r.kpi_name = kpi) IN
                            [i \in 1..Len(mine) |->
                               [actual |-> mine[i].actual_value,
                                target |-> mine[i].target_value,
                                status |-> mine[i].status]]]],
                   runs |-> runs]]

log_comparison(d, simulation_id, threshold_id, is_within_threshold, actual_value) ==
    LET db0 == init_mongodb(d) IN
    IF db0 = None THEN [db |-> d, out |-> None]
    ELSE IF ~db0.reachable THEN [db |-> db0, out |-> None]
    ELSE [db |-> [db0 EXCEPT !.comparisons = Append(@,
                    [_id |-> Len(db0.comparisons) + 1,
                     simulation_id |-> simulation_id, threshold_id |-> threshold_id,
                     is_within_threshold |-> is_within_threshold,
                     actual_value |-> actual_value,
                     threshold_min |-> None, threshold_max |-> None,
                     notes |-> ""])],
          out |-> Str(Len(db0.comparisons) + 1)]

\* sort("timestamp", -1) gives the documents found in the reverse of their
\* insertion, limit(limit) the first of them
get_comparison_history(d, threshold_id, limit) ==
    LET db0 == init_mongodb(d) IN
    IF db0 = None THEN [db |-> d, out |-> <<>>]
    ELSE IF ~db0.reachable THEN [db |-> db0, out |-> <<>>]
    ELSE LET found == SelectSeq(db0.comparisons,
                                LAMBDA c : c.threshold_id = threshold_id)
             newest == [i \in 1..Len(found) |-> found[Len(found) + 1 - i]]
         IN [db |-> db0,
             out |-> WithStrIds(IF Len(newest) <= limit THEN newest
                                ELSE SubSeq(newest, 1, limit))]

\* pass_rate is round((passed / total) * 100, 2), in hundredths
get_statistics(d, threshold_id, agent_name, days) ==
    LET db0 == init_mongodb(d) IN
    IF db0 = None THEN [db |-> d, out |-> EmptyDict]
    ELSE IF ~db0.reachable THEN [db |-> db0, out |-> EmptyDict]
    ELSE LET runs == db0.simulation_runs IN
         [db |-> db0,
          out |-> IF runs = <<>>
                  THEN [total |-> 0, passed |-> 0, failed |-> 0, pass_rate |-> I(0)]
                  ELSE [total |-> Len(runs), passed |-> Passed(runs),
                        failed |-> Len(runs) - Passed(runs),
                        pass_rate |-> Fl((2 * Passed(runs) * 10000 + Len(runs))
                                            \div (2 * Len(runs))),
                        days |-> days, agent |-> agent_name,
                        threshold |-> threshold_id]]

\* the operations of the two classes
StoreOps == {"create_threshold", "get_threshold", "get_agent_thresholds",
             "update_threshold", "delete_threshold", "get_all_thresholds",
             "log_simulation_run", "get_simulation_results", "log_comparison",
             "get_comparison_history", "get_statistics"}

\* what each operation returns when it has no store
EmptyValue(op) ==
    CASE op \in {"create_threshold", "get_threshold", "log_simulation_run",
                 "log_comparison"} -> None
      [] op \in {"update_threshold", "delete_threshold"} -> FALSE
      [] op \in {"get_agent_thresholds", "get_all_thresholds",
                 "get_comparison_history"} -> <<>>
      [] op \in {"get_simulation_results", "get_statistics"} -> EmptyDict

\* inputs of the operations
StoreAgents == {"CFO", "CRO"}
StoreKpi(agent_name) ==
    IF agent_name = "CFO" THEN "accumulated_profit" ELSE "systems_at_risk"
ThresholdIds == {Str(n) : n \in 1..MaxDocs} \cup {[str |-> "not-an-id"]}
ThresholdUpdates == {[is_active |-> TRUE], [description |-> ""]}
SimulationIds == {"sim-1"}

\* the ids whose deletion succeeded and that no update has activated since
DeletedAfter(d, op, threshold_id, updates, out) ==
    IF op = "delete_threshold" /\ out THEN d.deleted \cup {ObjectId(threshold_id)}
    ELSE IF op = "update_threshold" /\ "is_active" \in DOMAIN updates
            /\ updates["is_active"]
         THEN d.deleted \ {ObjectId(threshold_id)}
    ELSE d.deleted

\* the documents held by the three collections
Stored(d) == Len(d.thresholds) + Len(d.simulation_runs) + Len(d.comparisons)

\* one call of an operation: the store it leaves and the value it returns
StoreCall(op, args, r) ==
    /\ pc = "store"
    /\ db' = r.db
    /\ call' = [op |-> op, args |-> args, out |-> r.out]
    /\ UNCHANGED <<bots, ref, current, alloc, adjustments, calls, runVars,
                   rng, shared, fs, req, pc>>

CreateThreshold(agent_name) ==
    /\ Stored(db) < MaxDocs
    /\ StoreCall("create_threshold", <<agent_name>>,
                 create_threshold(db, agent_name, StoreKpi(agent_name),
                                  I(0), I(100), I(50)))

GetThreshold(threshold_id) ==
    StoreCall("get_threshold", <<threshold_id>>, get_threshold(db, threshold_id))

GetAgentThresholds(agent_name) ==
    StoreCall("get_agent_thresholds", <<agent_name>>,
              get_agent_thresholds(db, agent_name))

UpdateThreshold(threshold_id, updates, moved) ==
    LET r == update_threshold(db, threshold_id, updates, moved) IN
    StoreCall("update_threshold", <<threshold_id, updates>>,
              [db |-> [r.db EXCEPT !.deleted =
                         DeletedAfter(db, "update_threshold", threshold_id,
                                      updates, r.out)],
               out |-> r.out])

DeleteThreshold(threshold_id, moved) ==
    LET r == delete_threshold(db, threshold_id, moved) IN
    StoreCall("delete_threshold", <<threshold_id>>,
              [db |-> [r.db EXCEPT !.deleted =
                         DeletedAfter(db, "delete_threshold", threshold_id,
                                      <<>>, r.out)],
               out |-> r.out])

GetAllThresholds ==
    StoreCall("get_all_thresholds", <<>>, get_all_thresholds(db))

LogSimulationRun(threshold_id, agent_name, actual_value, target_value, min_value, max_value) ==
    /\ Stored(db) < MaxDocs
    /\ \E simulation_id \in SimulationIds :
          StoreCall("log_simulation_run",
                    <<simulation_id, threshold_id, agent_name, actual_value,
                      target_value, min_value, max_value>>,
                    log_simulation_run(db, simulation_id, threshold_id, agent_name,
                                       StoreKpi(agent_name), actual_value,
                                       target_value, min_value, max_value))

GetSimulationResults(simulation_id) ==
    StoreCall("get_simulation_results", <<simulation_id>>,
              get_simulation_results(db, simulation_id))

LogComparison(threshold_id, is_within_threshold) ==
    /\ Stored(db) < MaxDocs
    /\ \E simulation_id \in SimulationIds :
          StoreCall("log_comparison",
                    <<simulation_id, threshold_id, is_within_threshold>>,
                    log_comparison(db, simulation_id, threshold_id,
                                   is_within_threshold, I(90)))

GetComparisonHistory(threshold_id) ==
    StoreCall("get_comparison_history", <<threshold_id>>,
              get_comparison_history(db, threshold_id, 100))

GetStatistics ==
    StoreCall("get_statistics", <<>>, get_statistics(db, None, None, 30))

\* the server starts or stops answering
Outage ==
    /\ pc = "store"
    /\ db' = [db EXCEPT !.reachable = ~@]
    /\ UNCHANGED <<bots, call, ref, current, alloc, adjustments, calls, runVars,
                   rng, shared, fs, req, pc>>

\* a process with no connection yet; the server may hold a threshold already
InitStore ==
    /\ \E reachable \in BOOLEAN, stored \in {<<>>, <<"CFO">>} :
          db = [connected |-> FALSE, reachable |-> reachable,
                thresholds |-> [i \in 1..Len(stored) |->
                                  [_id |-> i, agent_name |-> stored[i],
                                   kpi_name |-> StoreKpi(stored[i]),
                                   min_value |-> I(0), max_value |-> I(100),
                                   target_value |-> I(50), description |-> "",
                                   is_active |-> TRUE]],
                simulation_runs |-> <<>>, comparisons |-> <<>>, deleted |-> {}]
    /\ bots = <<>>
    /\ call = NoCall
    /\ ref = NoCall
    /\ current = <<>>
    /\ alloc = <<>>
    /\ adjustments = <<>>
    /\ calls = 0
    /\ optimizer = <<>>
    /\ pool = <<>>
    /\ strategy = None
    /\ years = <<>>
    /\ metrics = NoMetrics
    /\ rng = Seeded
    /\ shared = <<>>
    /\ fs = <<>>
    /\ req = <<>>
    /\ pc = "store"

NextStore ==
    \/ \E agent_name \in StoreAgents : CreateThreshold(agent_name)
    \/ \E threshold_id \in ThresholdIds : GetThreshold(threshold_id)
    \/ \E agent_name \in StoreAgents : GetAgentThresholds(agent_name)
    \/ \E threshold_id \in ThresholdIds, updates \in ThresholdUpdates,
          moved \in BOOLEAN : UpdateThreshold(threshold_id, updates, moved)
    \/ \E threshold_id \in ThresholdIds, moved \in BOOLEAN :
          DeleteThreshold(threshold_id, moved)
    \/ GetAllThresholds
    \/ \E case \in {<<I(50), I(50)>>, <<I(90), I(50)>>} :
          LogSimulationRun(Str(1), "CFO", case[1], case[2], I(0), I(100))
    \/ \E simulation_id \in SimulationIds : GetSimulationResults(simulation_id)
    \/ \E is_within_threshold \in {FALSE} :
          LogComparison(Str(1), is_within_threshold)
    \/ \E threshold_id \in {Str(1)} : GetComparisonHistory(threshold_id)
    \/ GetStatistics
    \/ Outage

SpecStore == InitStore /\ [][NextStore]_vars

\* one run logged into an empty simulation_runs collection
LedgerActuals == {I(-60), I(-50), I(-10), I(0), I(40), I(45), I(50), I(55),
                  I(56), I(60), I(100), I(110)}

InitLedger ==
    /\ InitStore
    /\ db.reachable
    /\ db.thresholds = <<>>

NextLedger ==
    /\ db.simulation_runs = <<>>
    /\ \E actual_value \in LedgerActuals,
          target_value \in {None, I(50), I(-50)},
          min_value \in {None, I(0), I(60)},
          max_value \in {None, I(40), I(100)} :
             LogSimulationRun(Str(1), "CFO", actual_value, target_value,
                              min_value, max_value)

SpecLedger == InitLedger /\ [][NextLedger]_vars

----------------------------------------------------------------------------
(* ImprovedForioExtractor._make_request (src/scripts/forio_data_extractor.py) *)

\* the largest max_retries a caller passes in the model
MaxRetries == 3

\* what one requests.get / requests.post call can end in: a response with
\* its status code (a 200 with or without a JSON body), or an exception
Responses == {"200", "200 non-JSON", "401", "403", "404", "429", "500",
              "Timeout", "ConnectionError", "Exception"}

\* the statuses answered at once with an error
Refused == {"401", "403", "404"}

\* the error message of each case, as its pieces
ErrorOf(response, attempt) ==
    CASE response = "401" ->
            <<"Authentication failed. Check your PUBLIC_KEY and PRIVATE_KEY.">>
      [] response = "403" -> <<"Access forbidden. Check project permissions.">>
      [] response = "404" -> <<"Resource not found: ", "url">>
      [] response = "Timeout" ->
            <<"Request timeout on attempt ", ToString(attempt + 1)>>
      [] response = "ConnectionError" -> <<"Connection error: ", "e">>
      [] response = "Exception" -> <<"Unexpected error: ", "e">>
      [] OTHER -> <<"HTTP ", response, ": ", "text">>

\* (variant: a refused request is tried again like a server error)
Outcome_RefusedRetried(response, attempt, max_retries) ==
    IF response = "200" THEN [success |-> TRUE, data |-> [json |-> "body"], error |-> None]
    ELSE IF response = "200 non-JSON"
         THEN [success |-> TRUE, data |-> [raw |-> "text"], error |-> None]
    ELSE IF response = "Exception"
         THEN [success |-> FALSE, data |-> None, error |-> ErrorOf(response, attempt)]
    ELSE IF response = "429" THEN None
    ELSE IF attempt < max_retries - 1 THEN None
    ELSE [success |-> FALSE, data |-> None, error |-> ErrorOf(response, attempt)]
\* one pass of the loop body: the triple returned, or None when the loop
\* goes on (continue)
Outcome(response, attempt, max_retries) ==
    IF response = "200" THEN [success |-> TRUE, data |-> [json |-> "body"], error |-> None]
    ELSE IF response = "200 non-JSON"
         THEN [success |-> TRUE, data |-> [raw |-> "text"], error |-> None]
    ELSE IF response \in Refused \cup {"Exception"}
         THEN [success |-> FALSE, data |-> None, error |-> ErrorOf(response, attempt)]
    ELSE IF response = "429" THEN None
    ELSE IF attempt < max_retries - 1 THEN None
    ELSE [success |-> FALSE, data |-> None, error |-> ErrorOf(response, attempt)]

\* one pass of "for attempt in range(max_retries)": the request is sent and
\* answered
Attempt(response) ==
    /\ pc = "request"
    /\ req.attempt < req.max_retries
    /\ LET result == Outcome(response, req.attempt, req.max_retries) IN
       /\ req' = [req EXCEPT !.attempt = @ + 1,
                             !.responses = Append(@, response),
                             !.result = result]
       /\ pc' = IF result = None THEN "request" ELSE "returned"
    /\ UNCHANGED <<bots, call, ref, current, alloc, adjustments, calls, runVars,
                   rng, shared, fs, db>>

\* the loop is over: the return after it
Exhausted ==
    /\ pc = "request"
    /\ req.attempt >= req.max_retries
    /\ req' = [req EXCEPT !.result = [success |-> FALSE, data |-> None,
                                      error |-> <<"Max retries exceeded">>]]
    /\ pc' = "returned"
    /\ UNCHANGED <<bots, call, ref, current, alloc, adjustments, calls, runVars,
                   rng, shared, fs, db>>

\* _make_request entered with some max_retries
InitRequest ==
    /\ \E max_retries \in 0..MaxRetries :
          req = [max_retries |-> max_retries, attempt |-> 0,
                 responses |-> <<>>, result |-> None]
    /\ bots = <<>>
    /\ call = NoCall
    /\ ref = NoCall
    /\ current = <<>>
    /\ alloc = <<>>
    /\ adjustments = <<>>
    /\ calls = 0
    /\ optimizer = <<>>
    /\ pool = <<>>
    /\ strategy = None
    /\ years = <<>>
    /\ metrics = NoMetrics
    /\ rng = Seeded
    /\ shared = <<>>
    /\ fs = <<>>
    /\ db = <<>>
    /\ pc = "request"

NextRequest ==
    \/ \E response \in Responses : Attempt(response)
    \/ Exhausted

SpecRequest == InitRequest /\ [][NextRequest]_vars

\* every requests call returns or raises within its timeout, and the sleeps end
SpecRequestFair == SpecRequest /\ WF_vars(NextRequest)

----------------------------------------------------------------------------
(* Algebra of the allocator *)

\* previous Fi + delta_i, over the denominator 2 * d of the previous allocation
PreviousPlusDelta ==
    LET cur == CurrentAllocation(current)
    IN [n |-> [i \in 1..4 |-> 2 * cur.n[i] + adjustments[i] * cur.d], d |-> 2 * cur.d]

\* the previous allocation sums to 100
PreviousSumsTo100 ==
    Sum4(CurrentAllocation(current).n) = 100 * CurrentAllocation(current).d

\* at least one role rule fired
SomeRuleFired ==
    Firing("CFO", TRUE) \cup Firing("CRO", FALSE) \cup Firing("COO", TRUE) # {}

\* C29: every role delta sums to zero, so when the previous allocation sums
\* to 100 and every previous Fi + delta_i is within its bound,
\* optimize_next_year returns exactly previous + delta (the previous
\* allocation itself when no rule fires)
C29_ExactWhenUnclamped ==
    Allocated =>
        /\ Sum4(adjustments) = 0
        /\ (PreviousSumsTo100 /\ InBounds(PreviousPlusDelta)) =>
               /\ \A i \in 1..4 :
                     alloc.n[i] * PreviousPlusDelta.d = PreviousPlusDelta.n[i] * alloc.d
               /\ ~SomeRuleFired => alloc = CurrentAllocation(current)

\* rules fired, nothing was clamped and the allocation moved by the delta
C29_Witness ==
    /\ Allocated
    /\ SomeRuleFired
    /\ PreviousSumsTo100
    /\ InBounds(PreviousPlusDelta)
    /\ alloc # CurrentAllocation(current)
    /\ alloc = Reduce(PreviousPlusDelta)

\* C30: when a role rule fires on an allocation that sums to 100 with every
\* share within its bound, the returned allocation is shifted toward
\* prevention and detection: F1 + F2 does not fall, F3 + F4 does not rise
C30_ShiftToPrevention ==
    (Allocated /\ SomeRuleFired /\ PreviousSumsTo100
               /\ InBounds(CurrentAllocation(current))) =>
        LET cur == CurrentAllocation(current)
        IN /\ (alloc.n[1] + alloc.n[2]) * cur.d >= (cur.n[1] + cur.n[2]) * alloc.d
           /\ (alloc.n[3] + alloc.n[4]) * cur.d <= (cur.n[3] + cur.n[4]) * alloc.d

\* a rule fired on an allocation on its bounds: the clamp binds and the
\* shift is still toward prevention
C30_Witness ==
    /\ Allocated
    /\ SomeRuleFired
    /\ CurrentAllocation(current) = Shares(60, 30, 5, 5)
    /\ ~InBounds(PreviousPlusDelta)
    /\ (alloc.n[1] + alloc.n[2]) > 90 * alloc.d

----------------------------------------------------------------------------
(* Reproducibility of the run *)

\* the execution under way is the second one
SecondExecution == ref.op = "run_5_year_optimization"

\* C21: two executions with the same data, the same agent configuration and
\* the same seeded random source produce the same list of yearly records,
\* KPI values and F1..F4 of every year included
C21_Reproducible ==
    SecondExecution =>
        /\ \A n \in 1..Len(years) : years[n] = ref.out[n]
        /\ pc = "done" => years = ref.out

\* a second execution finished, on a pool where the sampling had a choice
C21_Witness ==
    /\ SecondExecution
    /\ pc = "done"
    /\ Len(years) = 5
    /\ Len(FiveYearData(pool)) >= 2
    /\ years = ref.out

----------------------------------------------------------------------------
(* The shared configuration *)

\* C22: agents and the shared configuration are never changed: building an
\* optimizer leaves every target and personality of the configuration as
\* loaded, and the calls of any optimizer leave the name, kpi_focus, target
\* and personality of every agent of every optimizer as built
C22_ConfigAndAgentsFrozen ==
    pc = "shared" =>
        /\ shared.config = shared.loaded
        /\ \A k \in 1..Len(shared.built) :
              shared.built[k].agents =
                  OptimizerAgents(shared.loaded, shared.built[k].collaborative,
                                  shared.built[k].risk_tolerance_level)

\* two optimizers with different settings, one of them called
C22_Witness ==
    /\ pc = "shared"
    /\ Len(shared.built) = 2
    /\ shared.built[1].agents # shared.built[2].agents
    /\ call.op = "optimize_next_year"
    /\ shared.config = shared.loaded

----------------------------------------------------------------------------
(* Loading the configuration *)

\* the file is there, opens, and holds a JSON object
HoldsConfiguration ==
    fs.exists /\ fs.readable /\ fs.parses /\ fs.json.type = "dict"

----------------------------------------------------------------------------
(* The status of a logged run *)

\* C24: every logged run has one of the four statuses; it is below_min
\* exactly when a min is given and actual < min, above_max exactly when a max
\* is given and actual > max, and off_target only when a target is given
\* with neither a min nor a max.
C24_StatusAsEvaluated ==
    \A i \in 1..Len(db.simulation_runs) :
        LET run == db.simulation_runs[i] IN
        /\ run.status \in {"on_target", "below_min", "above_max", "off_target"}
        /\ (run.status = "below_min") <=>
               (run.min_value # None /\ run.actual_value.h < run.min_value.h)
        /\ (run.status = "above_max") <=>
               (run.max_value # None /\ run.actual_value.h > run.max_value.h)
        /\ (run.status = "off_target") =>
               (run.target_value # None /\ run.min_value = None
                   /\ run.max_value = None)

----------------------------------------------------------------------------
(* Rows with cells that are not numbers *)

\* C25: the record built from a row has the profit, compromised_systems,
\* availability and F1..F4 that the row gives with 0 in place of every
\* missing or non-numeric cell.
C25_MissingAsZero ==
    pc = "simulated" =>
        LET zero == simulate_year_from_data(ZeroFilled(pool[1]), rng.tape[1]) IN
        /\ years[1]["accumulated_profit"] = zero["accumulated_profit"]
        /\ years[1]["compromised_systems"] = zero["compromised_systems"]
        /\ years[1]["systems_availability"] = zero["systems_availability"]
        /\ years[1]["F"] = zero["F"]

----------------------------------------------------------------------------
(* The store that cannot be reached *)

\* C26: when init_mongodb yields None, a call of any operation of the two
\* classes returns that operation's empty or failed value and leaves every
\* collection as it was.
C26_NoStoreNoEffect ==
    [][init_mongodb(db) = None =>
          /\ db'.thresholds = db.thresholds
          /\ db'.simulation_runs = db.simulation_runs
          /\ db'.comparisons = db.comparisons
          /\ call'.op \in StoreOps => call'.out = EmptyValue(call'.op)]_vars

\* create_threshold was called with no store: None came back and the
\* threshold the server held stays the only one
C26_Witness ==
    /\ pc = "store"
    /\ init_mongodb(db) = None
    /\ call.op = "create_threshold"
    /\ call.out = None
    /\ Len(db.thresholds) = 1

----------------------------------------------------------------------------
(* Soft deletion *)

\* a call of op was made in this step
Called(ops) == call' # call /\ call'.op \in ops

\* C27: a threshold whose deletion succeeded stays deleted and stored
\* through every step that is not an update_threshold setting is_active,
\* is in no result of get_all_thresholds or get_agent_thresholds, and is
\* what get_threshold(id) returns from a store that answers.
C27_SoftDelete ==
    [][\A n \in db.deleted :
          /\ \/ /\ call'.op = "update_threshold"
                /\ call'.args[1] = Str(n)
                /\ "is_active" \in DOMAIN call'.args[2]
             \/ /\ n \in db'.deleted
                /\ FindOne(db'.thresholds, n) # None
          /\ Called({"get_all_thresholds", "get_agent_thresholds"}) =>
                \A i \in 1..Len(call'.out) : call'.out[i]._id # Str(n)
          /\ (Called({"get_threshold"}) /\ call'.args = <<Str(n)>>
                 /\ db.reachable) =>
                call'.out = WithStrId(db.thresholds[n])]_vars

\* the first of two thresholds was deleted: get_all_thresholds lists the
\* second only
C27_Witness ==
    /\ pc = "store"
    /\ db.deleted = {1}
    /\ Len(db.thresholds) = 2
    /\ call.op = "get_all_thresholds"
    /\ Len(call.out) = 1
    /\ call.out[1]._id = Str(2)

----------------------------------------------------------------------------
(* The retry loop of _make_request *)

\* the answer to the last request sent
LastResponse == req.responses[Len(req.responses)]

\* what holds of _make_request at every point
RequestSafety ==
    /\ Len(req.responses) <= req.max_retries
    /\ pc = "returned" =>
          /\ req.result # None
          /\ DOMAIN req.result = {"success", "data", "error"}
          /\ req.result.success \in BOOLEAN
    /\ pc = "request" => req.result = None
    /\ req.responses # <<>> =>
          /\ LastResponse \in {"200", "200 non-JSON"} =>
                pc = "returned" /\ req.result.success /\ req.result.data # None
          /\ LastResponse \in Refused =>
                pc = "returned" /\ ~req.result.success
          /\ (LastResponse \in {"429", "500", "Timeout", "ConnectionError"}
                /\ Len(req.responses) < req.max_retries) => pc = "request"
          /\ \A i \in 1..(Len(req.responses) - 1) :
                req.responses[i] \in {"429", "500", "Timeout", "ConnectionError"}
    /\ (pc = "returned" /\ \A i \in 1..Len(req.responses) : req.responses[i] = "429") =>
          /\ ~req.result.success
          /\ req.result.data = None
          /\ req.result.error = <<"Max retries exceeded">>

\* C28: _make_request returns a (success, data, error) triple after at most
\* max_retries requests: a 200 gives success at once, a 401, 403 or 404
\* failure at once, a 429, another error status, a timeout or a connection
\* error is followed by another request while attempts remain, and when every
\* request is rate-limited the result is the failure 'Max retries exceeded'.
C28_RequestReturns == []RequestSafety /\ <>(pc = "returned")

\* three requests, all rate-limited, and the failure returned after them
C28_Witness ==
    /\ pc = "returned"
    /\ req.max_retries = 3
    /\ req.responses = <<"429", "429", "429">>
    /\ req.result.error = <<"Max retries exceeded">>

====
